---- MODULE Spec2Model ----
(***************************************************************************)
(* Model of easy-tunnel-lb-agent: the Router (routing table), the tunnel   *)
(* Manager (registry), the WireGuardManager (peer address allocator), the  *)
(* management API handler and the HTTP dispatch of the LoadBalancer.       *)
(*                                                                         *)
(* The specifications share the variables:                                 *)
(*   SpecRouter  calls on one Router (AddRoute, RemoveRoute, lookups)      *)
(*   SpecList    a ListRoutes caller editing the map it got                *)
(*   Spec        calls on one Manager and its WireGuardManager             *)
(*   SpecCreate  concurrent CreateTunnel calls on one Manager, statement   *)
(*               by statement under its mutex                              *)
(*   SpecAgent   the agent as cmd/main.go wires it: the API handlers on    *)
(*               the Manager, the HTTP dispatcher on the Router            *)
(*   SpecWG      concurrent SetupPeer calls on one WireGuardManager,       *)
(*               statement by statement under its mutex                    *)
(*   SpecLB      the traffic dispatcher: HTTP requests and one proxied TCP *)
(*               connection while routes come and go; SpecLBFair adds the  *)
(*               scheduling of the handler and pump goroutines             *)
(***************************************************************************)
EXTENDS Integers, Sequences, FiniteSets, TLC

VARIABLES
    hostMap,    \* Router.hostMap: hostname -> Target (a function on the bound hostnames)
    portMap,    \* Router.portMap: port -> Target
    call,       \* the last call (Router, Manager or handler) and what it returned
    maxTunnels, \* Manager.maxTunnels
    tunnels,    \* Manager.tunnels: id -> TunnelInfo
    nextIP,     \* WireGuardManager.nextIP, the sixteen bytes of the net.IP
    peers,      \* peers registered on interface wg0: peer key -> allowed ip
    now,        \* the clock read by time.Now()
    wmu,        \* WireGuardManager.mu: the process holding it, or NoProc
    pc,         \* SetupPeer callers: the statement each is at
    wloc,       \* SetupPeer callers: their locals
    returned,   \* the peer addresses successful SetupPeer calls returned, in order
    mmu,        \* Manager.mu: the process holding it, or NoProc
    mpc,        \* concurrent CreateTunnel callers: the statement each is at
    mloc,       \* concurrent CreateTunnel callers: their arguments and locals
    createdIDs, \* the identifiers CreateTunnel calls returned without error, in order
    tpc,        \* handleTCPConnection: the statement the handler of the connection is at
    ppc,        \* proxy: the statement each pump direction is at
    conn,       \* the accepted connection: clientConn, backendConn and what was done with them
    inbox,      \* what the remote peer of each side has made available to Read
    listRef,    \* the map a ListRoutes caller holds: "nil", "routes" (the map
                \* ListRoutes made) or "hostMap" (the Router's own map)
    routes,     \* the map ListRoutes made: its entries now
    listed,     \* the entries ListRoutes returned, with the caller's own edits since
    rmu,        \* who holds the Router's r.mu locked: a caller, or NoProc
    rpc,        \* each AddRoute caller's position in AddRoute
    rloc,       \* each AddRoute caller's arguments and error
    held,       \* a result of GetTunnel or GetAllTunnels a caller keeps: the record
                \* as it was returned, and as it reads through the result now
    listener,   \* the TCP listeners startTCPServer has made, in order, each "open"
                \* or "closed"; the last one is lb.tcpServer
    loop        \* the accept loop goroutine of each listener: "accepting" (in
                \* Accept), "dispatch" (Accept has returned a connection, the
                \* handler is not started yet) or "ended"

vars == <<hostMap, portMap, call, maxTunnels, tunnels, nextIP, peers, now,
          wmu, pc, wloc, returned, mmu, mpc, mloc, createdIDs,
          tpc, ppc, conn, inbox, listRef, routes, listed, rmu, rpc, rloc, held,
          listener, loop>>

routerVars == <<hostMap, portMap>>
managerVars == <<maxTunnels, tunnels, now>>
wgVars == <<nextIP, peers>>
setupVars == <<wmu, pc, wloc, returned>>
createVars == <<mmu, mpc, mloc, createdIDs>>
tcpVars == <<tpc, ppc, conn, inbox>>
listVars == <<listRef, routes, listed>>
addVars == <<rmu, rpc, rloc>>
holdVars == <<held>>
acceptVars == <<listener, loop>>
procVars == <<setupVars, createVars, tcpVars, listVars, addVars, holdVars, acceptVars>>

(***************************************************************************)
(* Input domains                                                           *)
(***************************************************************************)
TunnelIDs == {"t1", "t2"}
Hostnames == {"a.example.com", "b.example.com"}
BackendIPs == {"10.0.0.1", "10.0.0.2"}
RoutePorts == {-1, 0, 8080, 8081}

NoErr == "nil"

\* The empty map, as make(map[K]*V) returns it.
EmptyMap == [k \in {} |-> k]

\* m[k] = v on a Go map.
MapPut(m, k, v) == [x \in DOMAIN m \cup {k} |-> IF x = k THEN v ELSE m[x]]

\* delete(m, k) for every k in ks.
MapDrop(m, ks) == [x \in DOMAIN m \ ks |-> m[x]]

(***************************************************************************)
(* Router                                                                  *)
(***************************************************************************)
Target(tunnelID, ip, port) == [ID |-> tunnelID, IP |-> ip, Port |-> port]

\* _, exists := r.hostMap[hostname]
HostnameInUse_NoCheck(hm, hostname) == FALSE
HostnameInUse(hm, hostname) == hostname \in DOMAIN hm

\* port > 0 and _, exists := r.portMap[port]
PortInUse(pm, port) == port > 0 /\ port \in DOMAIN pm

\* The error AddRoute returns.
AddRouteErr(hm, pm, hostname, port) ==
    IF HostnameInUse(hm, hostname) THEN "hostname already in use"
    ELSE IF PortInUse(pm, port) THEN "port already in use"
    ELSE NoErr

\* r.hostMap after AddRoute: written as soon as the hostname check passes,
\* before the port is looked at.
AddRouteHostMap(hm, tunnelID, hostname, ip, port) ==
    IF HostnameInUse(hm, hostname) THEN hm
    ELSE MapPut(hm, hostname, Target(tunnelID, ip, port))

\* r.portMap after AddRoute: a port entry is written only for port > 0.
AddRoutePortMap_AnyPort(hm, pm, tunnelID, hostname, ip, port) ==
    IF HostnameInUse(hm, hostname) \/ port \in DOMAIN pm THEN pm
    ELSE MapPut(pm, port, Target(tunnelID, ip, port))
AddRoutePortMap_NextKey(hm, pm, tunnelID, hostname, ip, port) ==
    IF HostnameInUse(hm, hostname) THEN pm
    ELSE IF port > 0 /\ ~PortInUse(pm, port + 1)
         THEN MapPut(pm, port + 1, Target(tunnelID, ip, port))
         ELSE pm
AddRoutePortMap(hm, pm, tunnelID, hostname, ip, port) ==
    IF HostnameInUse(hm, hostname) THEN pm
    ELSE IF port > 0 /\ ~PortInUse(pm, port)
         THEN MapPut(pm, port, Target(tunnelID, ip, port))
         ELSE pm

\* The keys RemoveRoute deletes from a map: those whose target carries the id.
RouteKeysOf_None(m, tunnelID) == {}
RouteKeysOf_All(m, tunnelID) == DOMAIN m
RouteKeysOf(m, tunnelID) == {k \in DOMAIN m : m[k].ID = tunnelID}

RemoveRouteMap(m, tunnelID) == MapDrop(m, RouteKeysOf(m, tunnelID))

\* What GetTunnelByHost / GetTunnelByPort return: the target and the error.
Lookup(m, k) ==
    IF k \in DOMAIN m THEN [found |-> TRUE, target |-> m[k]]
    ELSE [found |-> FALSE, target |-> Target("", "", 0)]

AddRoute(tunnelID, hostname, ip, port) ==
    /\ hostMap' = AddRouteHostMap(hostMap, tunnelID, hostname, ip, port)
    /\ portMap' = AddRoutePortMap(hostMap, portMap, tunnelID, hostname, ip, port)
    /\ call' = [op |-> "AddRoute", id |-> tunnelID, hostname |-> hostname,
                 ip |-> ip, port |-> port,
                 err |-> AddRouteErr(hostMap, portMap, hostname, port)]

RemoveRoute(tunnelID) ==
    /\ hostMap' = RemoveRouteMap(hostMap, tunnelID)
    /\ portMap' = RemoveRouteMap(portMap, tunnelID)
    \* hosts and ports remember the keys the identifier was bound under
    \* when the call was made (RemoveRoute itself returns nothing).
    /\ call' = [op |-> "RemoveRoute", id |-> tunnelID,
                 hosts |-> [h \in {x \in DOMAIN hostMap : hostMap[x].ID = tunnelID}
                              |-> hostMap[h]],
                 ports |-> {p \in DOMAIN portMap : portMap[p].ID = tunnelID}]

GetTunnelByHost(hostname) ==
    /\ call' = [op |-> "GetTunnelByHost", hostname |-> hostname,
                 res |-> Lookup(hostMap, hostname)]
    /\ UNCHANGED routerVars

GetTunnelByPort(port) ==
    /\ call' = [op |-> "GetTunnelByPort", port |-> port,
                 res |-> Lookup(portMap, port)]
    /\ UNCHANGED routerVars

\* NewRouter
RouterInit ==
    /\ hostMap = EmptyMap
    /\ portMap = EmptyMap

(***************************************************************************)
(* WireGuardManager                                                        *)
(***************************************************************************)
\* How many addresses a run may allocate (the cursor is otherwise unbounded
\* within the block of 65536).
MaxAllocs == 2

\* basePort, set by NewWireGuardManager.
BasePort == 51820

\* net.ParseIP("10.10.0.1"): an IPv4 address in its 16-byte form.
FirstIP == <<0, 0, 0, 0, 0, 0, 0, 0, 0, 0, 255, 255, 10, 10, 0, 1>>

\* net.ParseCIDR("10.10.0.0/16"): the 4-byte network number and mask.
BlockNet == <<10, 10, 0, 0>>
BlockMask == <<255, 255, 0, 0>>

\* The loop of allocateIP from byte i down: ip[i]++ on a byte, stop at the
\* first byte that does not wrap to 0.
IncFrom_NoCarry(ip, i) == IF i = 0 THEN ip ELSE [ip EXCEPT ![i] = (ip[i] + 1) % 256]
RECURSIVE IncFrom(_, _)
IncFrom(ip, i) ==
    IF i = 0 THEN ip
    ELSE LET b == (ip[i] + 1) % 256
             ip2 == [ip EXCEPT ![i] = b]
         IN IF b # 0 THEN ip2 ELSE IncFrom(ip2, i - 1)

\* The candidate allocateIP computes from the cursor.
IncIP(ip) == IncFrom(ip, Len(ip))

\* net.IP.To4: the last four bytes of a 16-byte IPv4-mapped address, <<>> (nil)
\* for any other.
To4(ip) ==
    IF Len(ip) = 4 THEN ip
    ELSE IF /\ Len(ip) = 16
            /\ \A i \in 1..10 : ip[i] = 0
            /\ ip[11] = 255 /\ ip[12] = 255
         THEN <<ip[13], ip[14], ip[15], ip[16]>>
         ELSE <<>>

\* x & y on two bytes.
RECURSIVE ByteAnd(_, _)
ByteAnd(x, y) ==
    IF x = 0 \/ y = 0 THEN 0
    ELSE IF y = 255 THEN x
    ELSE IF x = 255 THEN y
    ELSE (x % 2) * (y % 2) + 2 * ByteAnd(x \div 2, y \div 2)

\* The network number under the mask.
MaskedNet == [i \in 1..Len(BlockNet) |-> ByteAnd(BlockNet[i], BlockMask[i])]

\* net.IPNet.Contains for the block.
Contains(ip) ==
    LET ip4 == To4(ip)
        x == IF ip4 # <<>> THEN ip4 ELSE ip
    IN /\ Len(x) = Len(BlockNet)
       /\ \A i \in 1..Len(x) : MaskedNet[i] = ByteAnd(x[i], BlockMask[i])

\* net.IP.String of an IPv4 address: its four decimal bytes, kept as a tuple
\* (<<10, 10, 0, 2>> stands for "10.10.0.2").
IPString(ip) == To4(ip)

\* allocateIP: the address returned (<<>> for nil) and the cursor afterwards.
AllocatedIP(cursor) == LET ip == IncIP(cursor) IN IF Contains(ip) THEN ip ELSE <<>>
CursorAfterAlloc_Wraps(cursor) == IF Contains(IncIP(cursor)) THEN IncIP(cursor) ELSE FirstIP
CursorAfterAlloc(cursor) == LET ip == IncIP(cursor) IN IF Contains(ip) THEN ip ELSE cursor

\* allocateIP called on its own: the address it returns, the cursor it leaves,
\* and the place of the call in a run of calls.
allocateIP ==
    /\ nextIP' = CursorAfterAlloc(nextIP)
    /\ call' = [op |-> "allocateIP", from |-> nextIP, ip |-> AllocatedIP(nextIP),
                 n |-> IF call.op = "allocateIP" THEN call.n + 1 ELSE 1]
    /\ UNCHANGED peers

\* An IPv4 address as one big-endian number.
IPValue(ip4) == ((ip4[1] * 256 + ip4[2]) * 256 + ip4[3]) * 256 + ip4[4]

\* Fewer than MaxAllocs addresses have been allocated: the cursor is less
\* than MaxAllocs past 10.10.0.1.
NearStart(cursor) == IPValue(To4(cursor)) - IPValue(To4(FirstIP)) < MaxAllocs

\* A nil *WireGuardConfig.
NilConfig == [nil |-> TRUE]

\* What the external wg commands do in one SetupPeer call: all succeed, or the
\* first to fail ends the call.
Envs ==
    {[genkey |-> TRUE, pubkey |-> TRUE, addPeer |-> TRUE],
     [genkey |-> FALSE, pubkey |-> TRUE, addPeer |-> TRUE],
     [genkey |-> TRUE, pubkey |-> FALSE, addPeer |-> TRUE],
     [genkey |-> TRUE, pubkey |-> TRUE, addPeer |-> FALSE]}

\* The keys wg genkey and wg pubkey print.
PrivKey == "server-private-key"
PubKey == "server-public-key"

\* SetupPeer, run under w.mu from its first statement to its return: the error,
\* the config, and the cursor and the interface's peers afterwards.
SetupPeer(cursor, prs, id, publicKey, env) ==
    LET peerIP == AllocatedIP(cursor)
        moved == CursorAfterAlloc(cursor)
    IN IF ~env.genkey THEN
           [err |-> "failed to generate private key", config |-> NilConfig,
            nextIP |-> cursor, peers |-> prs]
       ELSE IF ~env.pubkey THEN
           [err |-> "failed to generate public key", config |-> NilConfig,
            nextIP |-> cursor, peers |-> prs]
       ELSE IF peerIP = <<>> THEN
           [err |-> "failed to allocate IP for peer", config |-> NilConfig,
            nextIP |-> moved, peers |-> prs]
       ELSE IF ~env.addPeer THEN
           [err |-> "failed to add WireGuard peer", config |-> NilConfig,
            nextIP |-> moved, peers |-> prs]
       ELSE
           [err |-> NoErr,
            config |-> [PublicKey |-> PubKey, PrivateKey |-> PrivKey,
                        \* w.nextIP.String(), read after allocateIP moved the cursor
                        ServerIP |-> IPString(moved),
                        ClientIP |-> IPString(peerIP),
                        Port |-> BasePort],
            nextIP |-> moved,
            \* wg set wg0 peer <publicKey> allowed-ips <ip>/32
            peers |-> MapPut(prs, publicKey, IPString(peerIP))]

\* RemovePeer: wg set wg0 peer <id> remove, which may fail.
RemovePeer(prs, id, ok) ==
    IF ok THEN [err |-> NoErr, peers |-> MapDrop(prs, {id})]
    ELSE [err |-> "failed to remove WireGuard peer", peers |-> prs]

\* NewWireGuardManager
WGInit ==
    /\ nextIP = FirstIP
    /\ peers = EmptyMap

(***************************************************************************)
(* Manager                                                                 *)
(***************************************************************************)
\* The clock stops at MaxClock.
MaxClock == 1

\* The largest maxTunnels a Manager is constructed with.
MaxTunnelsBound == 2

\* NewManager(maxTunnels) takes any int: MAX_TUNNELS is read from the
\* environment and validate() does not look at it.
MaxTunnelsChoices == -1..MaxTunnelsBound

TargetPorts == {8080}
PeerKeys == {"", "client-public-key"}
Metadatas == {EmptyMap}

\* The clock readings a call that starts at t may make after its first.
LaterReadings(t) == {t2 \in {t, t + 1} : t2 <= MaxClock}

\* All wg commands succeed.
EnvOk == [genkey |-> TRUE, pubkey |-> TRUE, addPeer |-> TRUE]

TunnelInfo(id, hostname, targetPort, created, lastActive, wgConfig, metadata) ==
    [ID |-> id, Hostname |-> hostname, TargetPort |-> targetPort,
     PublicEndpoint |-> "", Created |-> created, LastActive |-> lastActive,
     WireGuardConfig |-> wgConfig, Metadata |-> metadata]

\* len(m.tunnels) >= m.maxTunnels
AtCapacity_OffByOne(tuns, max) == Cardinality(DOMAIN tuns) > max
AtCapacity(tuns, max) == Cardinality(DOMAIN tuns) >= max

\* _, exists := m.tunnels[id]
TunnelExists_NoCheck(tuns, id) == FALSE
TunnelExists(tuns, id) == id \in DOMAIN tuns

ErrCapacity == "maximum number of tunnels reached"
ErrExists == "tunnel already exists"
ErrSetupPeer == "failed to setup WireGuard peer"
ErrNotFound == "tunnel not found"

\* Whether CreateTunnel gets as far as calling m.wg.SetupPeer.
CallsSetupPeer_BeforeChecks(tuns, max, id, wgPubKey) == wgPubKey # ""
CallsSetupPeer(tuns, max, id, wgPubKey) ==
    /\ ~AtCapacity(tuns, max)
    /\ ~TunnelExists(tuns, id)
    /\ wgPubKey # ""

\* The inputs a CreateTunnel call draws from its surroundings: a second clock
\* reading when it gets to build the record, the outcome of the wg commands
\* when it gets to run them.
ReadingsFor(tuns, max, id, t) ==
    IF AtCapacity(tuns, max) \/ TunnelExists(tuns, id) THEN {t} ELSE LaterReadings(t)
EnvsFor(tuns, max, id, wgPubKey) ==
    IF CallsSetupPeer(tuns, max, id, wgPubKey) THEN Envs ELSE {EnvOk}

\* The error CreateTunnel returns: the capacity check comes first, then the
\* identifier check, then the peer setup.
CreateTunnelErr(tuns, max, cursor, prs, id, wgPubKey, env) ==
    IF AtCapacity(tuns, max) THEN ErrCapacity
    ELSE IF TunnelExists(tuns, id) THEN ErrExists
    ELSE IF wgPubKey # "" /\ SetupPeer(cursor, prs, id, wgPubKey, env).err # NoErr
         THEN ErrSetupPeer
    ELSE NoErr

\* The record CreateTunnel builds; t1 and t2 are its two time.Now() readings.
NewTunnel(cursor, prs, id, hostname, targetPort, wgPubKey, metadata, t1, t2, env) ==
    TunnelInfo(id, hostname, targetPort, t1, t2,
               IF wgPubKey # "" THEN SetupPeer(cursor, prs, id, wgPubKey, env).config
               ELSE NilConfig,
               metadata)

\* m.tunnels after CreateTunnel: the record is stored only after every check
\* and the peer setup have passed.
TunnelsAfterCreate_EarlyStore(tuns, max, cursor, prs, id, hostname, targetPort, wgPubKey, metadata, t1, t2, env) ==
    IF AtCapacity(tuns, max) \/ TunnelExists(tuns, id) THEN tuns
    ELSE MapPut(tuns, id, TunnelInfo(id, hostname, targetPort, t1, t2, NilConfig, metadata))
TunnelsAfterCreate(tuns, max, cursor, prs, id, hostname, targetPort, wgPubKey, metadata, t1, t2, env) ==
    IF CreateTunnelErr(tuns, max, cursor, prs, id, wgPubKey, env) # NoErr THEN tuns
    ELSE MapPut(tuns, id,
                NewTunnel(cursor, prs, id, hostname, targetPort, wgPubKey, metadata, t1, t2, env))

\* A CreateTunnel call that gets to SetupPeer is followed only while fewer
\* than MaxAllocs addresses have been allocated.
AllocsLeft(id, wgPubKey) ==
    CallsSetupPeer(tunnels, maxTunnels, id, wgPubKey) => NearStart(nextIP)

\* The part of CreateTunnel that changes state, shared by the direct call and
\* the API handler.
CreateTunnelStep(id, hostname, targetPort, wgPubKey, metadata, t2, env) ==
    /\ tunnels' = TunnelsAfterCreate(tunnels, maxTunnels, nextIP, peers, id, hostname,
                                     targetPort, wgPubKey, metadata, now, t2, env)
    /\ IF CallsSetupPeer(tunnels, maxTunnels, id, wgPubKey)
       THEN /\ nextIP' = SetupPeer(nextIP, peers, id, wgPubKey, env).nextIP
            /\ peers' = SetupPeer(nextIP, peers, id, wgPubKey, env).peers
       ELSE UNCHANGED wgVars
    \* the clock is read only once both checks have passed
    /\ now' = IF AtCapacity(tunnels, maxTunnels) \/ TunnelExists(tunnels, id)
              THEN now ELSE t2
    /\ UNCHANGED maxTunnels

CreateTunnel(id, hostname, targetPort, wgPubKey, metadata, t2, env) ==
    /\ CreateTunnelStep(id, hostname, targetPort, wgPubKey, metadata, t2, env)
    /\ call' = [op |-> "CreateTunnel", id |-> id, hostname |-> hostname,
                key |-> wgPubKey,
                \* what m.wg.SetupPeer returned, if it was called
                peerErr |-> IF CallsSetupPeer(tunnels, maxTunnels, id, wgPubKey)
                            THEN SetupPeer(nextIP, peers, id, wgPubKey, env).err
                            ELSE "not called",
                err |-> CreateTunnelErr(tunnels, maxTunnels, nextIP, peers, id, wgPubKey, env)]

\* The error RemoveTunnel returns: a failed peer removal is logged, not returned.
RemoveTunnelErr(tuns, id) == IF TunnelExists(tuns, id) THEN NoErr ELSE ErrNotFound

\* Whether RemoveTunnel calls m.wg.RemovePeer.
CallsRemovePeer(tuns, id) ==
    TunnelExists(tuns, id) /\ tuns[id].WireGuardConfig # NilConfig

\* m.tunnels after RemoveTunnel; peerOk is whether RemovePeer succeeded.
TunnelsAfterRemove_KeepOnPeerError(tuns, id, peerOk) ==
    IF CallsRemovePeer(tuns, id) /\ ~peerOk THEN tuns ELSE MapDrop(tuns, {id})
TunnelsAfterRemove(tuns, id, peerOk) == MapDrop(tuns, {id})

RemoveTunnelStep(id, peerOk) ==
    /\ tunnels' = TunnelsAfterRemove(tunnels, id, peerOk)
    /\ peers' = IF CallsRemovePeer(tunnels, id)
                THEN RemovePeer(peers, id, peerOk).peers ELSE peers
    /\ UNCHANGED <<maxTunnels, now, nextIP>>

RemoveTunnel(id, peerOk) ==
    /\ RemoveTunnelStep(id, peerOk)
    /\ call' = [op |-> "RemoveTunnel", id |-> id,
                peer |-> IF ~CallsRemovePeer(tunnels, id) THEN "none"
                         ELSE IF peerOk THEN "released" ELSE "release failed",
                err |-> RemoveTunnelErr(tunnels, id)]

\* GetTunnel: the record and whether it was found.
GetTunnel(id) ==
    /\ call' = [op |-> "GetTunnel", id |-> id, found |-> TunnelExists(tunnels, id)]
    /\ UNCHANGED <<managerVars, wgVars>>

\* UpdateLastActive: tunnel.LastActive = time.Now() when the id exists.
TunnelsAfterUpdate_ToCreation(tuns, id, t) ==
    IF TunnelExists(tuns, id) THEN [tuns EXCEPT ![id].LastActive = tuns[id].Created]
    ELSE tuns
TunnelsAfterUpdate_TouchesAll(tuns, id, t) ==
    IF TunnelExists(tuns, id) THEN [i \in DOMAIN tuns |-> [tuns[i] EXCEPT !.LastActive = t]]
    ELSE tuns
TunnelsAfterUpdate(tuns, id, t) ==
    IF TunnelExists(tuns, id) THEN [tuns EXCEPT ![id].LastActive = t] ELSE tuns

UpdateLastActive(id) ==
    /\ tunnels' = TunnelsAfterUpdate(tunnels, id, now)
    /\ call' = [op |-> "UpdateLastActive", id |-> id]
    /\ UNCHANGED <<maxTunnels, now, wgVars>>

\* Time passes.
Tick ==
    /\ now < MaxClock
    /\ now' = now + 1
    /\ call' = [op |-> "Tick"]
    /\ UNCHANGED <<maxTunnels, tunnels, wgVars>>

\* NewManager(maxTunnels)
ManagerInit ==
    /\ maxTunnels \in MaxTunnelsChoices
    /\ tunnels = EmptyMap
    /\ now = 0

(***************************************************************************)
(* API handler and HTTP dispatch                                           *)
(***************************************************************************)
Methods == {"POST", "GET"}

StatusCreated == 201
StatusOK == 200
StatusBadRequest == 400
StatusMethodNotAllowed == 405
StatusInternalServerError == 500
StatusServiceUnavailable == 503

\* Decoded CreateTunnelRequest bodies; a body that does not decode leaves the
\* zero request.
CreateRequests ==
    [TunnelID : TunnelIDs \cup {""}, Hostname : Hostnames \cup {""},
     TargetPort : TargetPorts \cup {0, -1}, WireGuardPublicKey : PeerKeys,
     Metadata : Metadatas]
ZeroRequest ==
    [TunnelID |-> "", Hostname |-> "", TargetPort |-> 0, WireGuardPublicKey |-> "",
     Metadata |-> EmptyMap]

\* The status handleCreateTunnel answers before it calls the Manager, 0 if it
\* goes on to call it.
CreateRequestReject_NoValidation(method, decodes, req) ==
    IF method # "POST" THEN StatusMethodNotAllowed
    ELSE IF ~decodes THEN StatusBadRequest
    ELSE 0
CreateRequestReject(method, decodes, req) ==
    IF method # "POST" THEN StatusMethodNotAllowed
    ELSE IF ~decodes THEN StatusBadRequest
    ELSE IF req.TunnelID = "" \/ req.Hostname = "" \/ req.TargetPort <= 0
         THEN StatusBadRequest
    ELSE 0

\* handleCreateTunnel: it calls tunnelManager.CreateTunnel and answers; the
\* handler holds no Router and installs no route.
handleCreateTunnel(method, decodes, req, t2, env) ==
    /\ IF CreateRequestReject(method, decodes, req) # 0
       THEN /\ UNCHANGED <<managerVars, wgVars>>
            /\ call' = [op |-> "handleCreateTunnel", method |-> method,
                        decodes |-> decodes, id |-> req.TunnelID,
                        hostname |-> req.Hostname, port |-> req.TargetPort,
                        invoked |-> FALSE,
                        code |-> CreateRequestReject(method, decodes, req)]
       ELSE /\ CreateTunnelStep(req.TunnelID, req.Hostname, req.TargetPort,
                                req.WireGuardPublicKey, req.Metadata, t2, env)
            /\ call' = [op |-> "handleCreateTunnel", method |-> method,
                        decodes |-> decodes, id |-> req.TunnelID,
                        hostname |-> req.Hostname, port |-> req.TargetPort,
                        invoked |-> TRUE,
                        code |-> IF CreateTunnelErr(tunnels, maxTunnels, nextIP, peers,
                                        req.TunnelID, req.WireGuardPublicKey, env) # NoErr
                                 THEN StatusInternalServerError ELSE StatusCreated]
    /\ UNCHANGED <<routerVars, procVars>>

\* The status handleRemoveTunnel answers before it calls the Manager, 0 if it
\* goes on to call it.
RemoveRequestReject(method, decodes, tunnelID) ==
    IF method # "POST" THEN StatusMethodNotAllowed
    ELSE IF ~decodes THEN StatusBadRequest
    ELSE IF tunnelID = "" THEN StatusBadRequest
    ELSE 0

handleRemoveTunnel(method, decodes, tunnelID, peerOk) ==
    /\ IF RemoveRequestReject(method, decodes, tunnelID) # 0
       THEN /\ UNCHANGED <<managerVars, wgVars>>
            /\ call' = [op |-> "handleRemoveTunnel", id |-> tunnelID,
                        code |-> RemoveRequestReject(method, decodes, tunnelID)]
       ELSE /\ RemoveTunnelStep(tunnelID, peerOk)
            /\ call' = [op |-> "handleRemoveTunnel", id |-> tunnelID,
                        code |-> IF RemoveTunnelErr(tunnels, tunnelID) # NoErr
                                 THEN StatusInternalServerError ELSE StatusOK]
    /\ UNCHANGED <<routerVars, procVars>>

\* The orders in which a range over m.tunnels may visit the identifiers: a Go
\* map is visited in no fixed order, each key once.
IterationOrders_Repeating(tuns) ==
    [1..Cardinality(DOMAIN tuns) -> DOMAIN tuns]
IterationOrders(tuns) ==
    {o \in [1..Cardinality(DOMAIN tuns) -> DOMAIN tuns] :
        \A i, j \in DOMAIN o : i # j => o[i] # o[j]}

\* The slices GetAllTunnels may return: the records appended in visiting order.
GetAllTunnels(tuns) ==
    {[i \in DOMAIN o |-> tuns[o[i]]] : o \in IterationOrders(tuns)}

\* handleStatus: 405 for a method other than GET, else 200 with
\* NumTunnels = len(GetAllTunnels()); list is the slice it got.
handleStatus(method, list) ==
    /\ IF method # "GET"
       THEN call' = [op |-> "handleStatus", code |-> StatusMethodNotAllowed,
                     list |-> <<>>, NumTunnels |-> 0]
       ELSE call' = [op |-> "handleStatus", code |-> StatusOK,
                     list |-> list, NumTunnels |-> Len(list)]
    /\ UNCHANGED <<routerVars, managerVars, wgVars, procVars>>

\* Whether handleHTTPRequest gets as far as proxy.ServeHTTP, the outbound
\* request to the target: only when GetTunnelByHost returned no error.
HTTPForwards_Always(hm, host) == TRUE
HTTPForwards(hm, host) == Lookup(hm, host).found

\* handleHTTPRequest: 503 when the router has no target for the Host, else the
\* request is forwarded to the target (code 0: the backend answers).
handleHTTPRequest(host) ==
    /\ call' = [op |-> "handleHTTPRequest", host |-> host,
                code |-> IF Lookup(hostMap, host).found THEN 0
                         ELSE StatusServiceUnavailable,
                forwarded |-> HTTPForwards(hostMap, host),
                target |-> Lookup(hostMap, host).target]
    /\ UNCHANGED <<routerVars, managerVars, wgVars, procVars>>

(***************************************************************************)
(* TCP dispatch: handleTCPConnection and its two proxy pumps               *)
(***************************************************************************)
\* How many chunks the two peers of a connection send in all.
MaxChunks == 2

\* The port the TCP listener is configured on (TCPPort = PublicPort + 1), which
\* is the local port of every accepted connection.
ListenPorts == {8081}

\* The two sides of a proxied pair and the two pump directions:
\* proxy(backendConn, clientConn) reads the client and writes the backend,
\* proxy(clientConn, backendConn) reads the backend and writes the client.
Sides == {"client", "backend"}
Directions == {"c2b", "b2c"}
Src(d) == IF d = "c2b" THEN "client" ELSE "backend"
Dst(d) == IF d = "c2b" THEN "backend" ELSE "client"

\* No connection accepted yet.
NoConn ==
    [port |-> 0, client |-> "none", backend |-> "none", found |-> "pending",
     target |-> Target("", "", 0), dial |-> "none", pumped |-> 0, sent |-> 0]

\* Where handleTCPConnection goes after GetTunnelByPort: on an error it
\* returns, which runs the deferred clientConn.Close().
PcAfterLookup_IgnoreError(found) == "dial"
PcAfterLookup(found) == IF found THEN "dial" ELSE "closeClient"

\* Where handleTCPConnection goes after net.Dial: on an error it returns.
PcAfterDial(ok) == IF ok THEN "spawn" ELSE "closeClient"

\* The model follows one connection at a time: the next client connects once
\* the handler and the pumps of the connection before it are over.
ConnOver ==
    /\ tpc \in {"listening", "done"}
    /\ \A d \in Directions : ppc[d] \in {"none", "ended"}

\* go lb.handleTCPConnection(conn): a handler goroutine starts on the
\* connection, its first step the lookup of the local port.
HandlerStart(port) ==
    /\ tpc' = "lookup"
    /\ ppc' = [d \in Directions |-> "none"]
    /\ conn' = [NoConn EXCEPT !.port = port, !.client = "open"]
    /\ inbox' = [s \in Sides |-> "nothing"]

\* A client connects, listener.Accept() returns the connection and
\* go lb.handleTCPConnection(conn) starts.
TCP_Accept(port) ==
    /\ ConnOver
    /\ HandlerStart(port)

\* target, err := lb.router.GetTunnelByPort(local port)
TCP_Lookup ==
    /\ tpc = "lookup"
    /\ conn' = [conn EXCEPT !.found = IF Lookup(portMap, conn.port).found
                                       THEN "yes" ELSE "no",
                            !.target = Lookup(portMap, conn.port).target]
    /\ tpc' = PcAfterLookup(Lookup(portMap, conn.port).found)
    /\ UNCHANGED <<ppc, inbox>>

\* backendConn, err := net.Dial("tcp", target)
TCP_Dial(ok) ==
    /\ tpc = "dial"
    /\ conn' = [conn EXCEPT !.dial = IF ok THEN "ok" ELSE "failed",
                            !.backend = IF ok THEN "open" ELSE "none"]
    /\ tpc' = PcAfterDial(ok)
    /\ UNCHANGED <<ppc, inbox>>

\* The address net.Dial is given: fmt.Sprintf("%s:%d", target.IP, target.Port).
DialAddress(target) == [ip |-> target.IP, port |-> target.Port]

\* go lb.proxy(clientConn, backendConn), and the handler enters
\* lb.proxy(backendConn, clientConn) itself.
TCP_Spawn ==
    /\ tpc = "spawn"
    /\ ppc' = [d \in Directions |-> "read"]
    /\ tpc' = "proxy"
    /\ UNCHANGED <<conn, inbox>>

\* n, err := src.Read(buffer): an error at once on a connection closed on this
\* side; otherwise it blocks until the peer has sent something, closed or
\* failed; on an error (io.EOF is one) proxy returns.
Proxy_Read(d) ==
    /\ ppc[d] = "read"
    /\ IF conn[Src(d)] = "closed"
       THEN /\ ppc' = [ppc EXCEPT ![d] = "ended"]
            /\ UNCHANGED inbox
       ELSE /\ inbox[Src(d)] # "nothing"
            /\ IF inbox[Src(d)] = "data"
               THEN /\ ppc' = [ppc EXCEPT ![d] = "write"]
                    /\ inbox' = [inbox EXCEPT ![Src(d)] = "nothing"]
               ELSE /\ ppc' = [ppc EXCEPT ![d] = "ended"]
                    /\ UNCHANGED inbox
    /\ UNCHANGED <<tpc, conn>>

\* _, err = dst.Write(buffer[:n]): an error on a connection closed on this
\* side, and possibly one when the peer has closed or failed; on an error proxy
\* returns.
Proxy_Write(d, ok) ==
    /\ ppc[d] = "write"
    /\ IF ok
       THEN /\ conn[Dst(d)] = "open"
            /\ ppc' = [ppc EXCEPT ![d] = "read"]
            /\ conn' = [conn EXCEPT !.pumped = conn.pumped + 1]
       ELSE /\ conn[Dst(d)] # "open" \/ inbox[Dst(d)] \in {"eof", "error"}
            /\ ppc' = [ppc EXCEPT ![d] = "ended"]
            /\ UNCHANGED conn
    /\ UNCHANGED <<tpc, inbox>>

\* lb.proxy(backendConn, clientConn) has returned to the handler, which
\* returns: the deferred backendConn.Close() runs first.
TCP_CloseBackend ==
    /\ tpc = "proxy"
    /\ ppc["c2b"] = "ended"
    /\ conn' = [conn EXCEPT !.backend = "closed"]
    /\ tpc' = "closeClient"
    /\ UNCHANGED <<ppc, inbox>>

\* The deferred clientConn.Close(), and the handler is gone.
TCP_CloseClient ==
    /\ tpc = "closeClient"
    /\ conn' = [conn EXCEPT !.client = "closed"]
    /\ tpc' = "done"
    /\ UNCHANGED <<ppc, inbox>>

\* The remote peer of one side sends a chunk.
PeerSends(side) ==
    /\ conn[side] = "open"
    /\ inbox[side] = "nothing"
    /\ conn.sent < MaxChunks
    /\ inbox' = [inbox EXCEPT ![side] = "data"]
    /\ conn' = [conn EXCEPT !.sent = conn.sent + 1]
    /\ UNCHANGED <<tpc, ppc>>

\* The remote peer of one side closes its end ("eof") or the connection
\* fails ("error").
PeerCloses(side, how) ==
    /\ conn[side] = "open"
    /\ inbox[side] = "nothing"
    /\ inbox' = [inbox EXCEPT ![side] = how]
    /\ UNCHANGED <<tpc, ppc, conn>>

TCPInit ==
    /\ tpc = "listening"
    /\ ppc = [d \in Directions |-> "none"]
    /\ conn = NoConn
    /\ inbox = [s \in Sides |-> "nothing"]

(***************************************************************************)
(* The TCP accept loop and Stop                                            *)
(***************************************************************************)
\* The errors a TCP listener's Accept returns: every one is a *net.OpError
\* with Op "accept", whatever its cause.
AcceptOpError(cause) == [opError |-> TRUE, op |-> "accept", cause |-> cause]

\* Accept failing while the listener is open, and after it was closed.
OpenAcceptErrors ==
    {AcceptOpError("too many open files"), AcceptOpError("too many open files in system")}
ClosedAcceptError == AcceptOpError("use of closed network connection")

\* if opErr, ok := err.(*net.OpError); ok && opErr.Op == "accept" { return }
\* (otherwise the error is logged and the loop continues).
LoopEnds(err) == err.opError /\ err.op = "accept"

\* The loop after Accept returned err.
LoopAfter(err) == IF LoopEnds(err) THEN "ended" ELSE "accepting"

\* How many times Start gets a listener.
MaxStarts == 2

\* The port is free when no listener made earlier is still open.
PortFree == \A g \in DOMAIN listener : listener[g] = "closed"

\* Start, the TCP part (startTCPServer): net.Listen fails, always so while the
\* port is taken, and Start returns the error; or it returns a listener, which
\* becomes lb.tcpServer, and a new goroutine runs the accept loop on it.
Start(ok) ==
    /\ ok => PortFree /\ Len(listener) < MaxStarts
    /\ listener' = IF ok THEN Append(listener, "open") ELSE listener
    /\ loop' = IF ok THEN Append(loop, "accepting") ELSE loop
    /\ call' = [op |-> "Start",
                 err |-> IF ok THEN NoErr ELSE "failed to start TCP server"]
    /\ UNCHANGED tcpVars

\* A client connects and conn, err := listener.Accept() returns the
\* connection. The client connects once the connection before it is over,
\* whether that one is with its handler or still held by an accept loop.
Accept_Conn(g) ==
    /\ g \in DOMAIN loop
    /\ loop[g] = "accepting"
    /\ listener[g] = "open"
    /\ ConnOver
    /\ \A h \in DOMAIN loop : loop[h] # "dispatch"
    /\ loop' = [loop EXCEPT ![g] = "dispatch"]
    /\ call' = [op |-> "Accept", g |-> g, err |-> NoErr, logged |-> FALSE]
    /\ UNCHANGED <<listener, tcpVars>>

\* go lb.handleTCPConnection(conn): the connection Accept returned, whose
\* local port is the listener's, is handed to a new handler goroutine,
\* whatever has happened to the listener since; the statement has no
\* condition and does not wait. The loop goes back to Accept.
Accept_Dispatch(g, port) ==
    /\ g \in DOMAIN loop
    /\ loop[g] = "dispatch"
    /\ HandlerStart(port)
    /\ loop' = [loop EXCEPT ![g] = "accepting"]
    /\ call' = [op |-> "go handleTCPConnection", g |-> g]
    /\ UNCHANGED listener

\* Accept returns an error while the listener is open.
Accept_Error(g, err) ==
    /\ g \in DOMAIN loop
    /\ loop[g] = "accepting"
    /\ listener[g] = "open"
    /\ loop' = [loop EXCEPT ![g] = LoopAfter(err)]
    /\ call' = [op |-> "Accept", g |-> g, err |-> err.cause, logged |-> ~LoopEnds(err)]
    /\ UNCHANGED <<listener, tcpVars>>

\* Accept returns because the listener was closed.
Accept_Closed(g) ==
    /\ g \in DOMAIN loop
    /\ loop[g] = "accepting"
    /\ listener[g] = "closed"
    /\ loop' = [loop EXCEPT ![g] = LoopAfter(ClosedAcceptError)]
    /\ call' = [op |-> "Accept", g |-> g, err |-> ClosedAcceptError.cause,
                 logged |-> ~LoopEnds(ClosedAcceptError)]
    /\ UNCHANGED <<listener, tcpVars>>

\* Stop: if lb.tcpServer != nil, lb.tcpServer.Close(); closing a listener that
\* is closed already returns an error, which is logged.
Stop ==
    /\ listener' = IF listener = <<>> THEN listener
                   ELSE [listener EXCEPT ![Len(listener)] = "closed"]
    /\ call' = [op |-> "Stop",
                 logged |-> listener # <<>> /\ listener[Len(listener)] = "closed"]
    /\ UNCHANGED <<loop, tcpVars>>

\* NewLoadBalancer: lb.tcpServer is nil and no accept loop runs.
AcceptInit ==
    /\ listener = <<>>
    /\ loop = <<>>

(***************************************************************************)
(* ListRoutes and what its caller does with the map it gets                *)
(***************************************************************************)
\* The map ListRoutes returns: routes, made by make() and filled from
\* r.hostMap, not r.hostMap itself.
ReturnedMap_Live == "hostMap"
ReturnedMap == "routes"

\* The entries of the map the caller holds.
CallerMap == IF listRef = "hostMap" THEN hostMap ELSE routes

\* ListRoutes: routes[hostname] = target for every entry of r.hostMap.
ListRoutes ==
    /\ routes' = [h \in DOMAIN hostMap |-> hostMap[h]]
    /\ listRef' = ReturnedMap
    /\ listed' = hostMap
    /\ call' = [op |-> "ListRoutes"]
    /\ UNCHANGED routerVars

\* The caller writes m[hostname] = target on the map it holds.
CallerPut(hostname, target) ==
    /\ listRef # "nil"
    /\ IF listRef = "hostMap"
       THEN hostMap' = MapPut(hostMap, hostname, target) /\ UNCHANGED routes
       ELSE routes' = MapPut(routes, hostname, target) /\ UNCHANGED hostMap
    /\ listed' = MapPut(listed, hostname, target)
    /\ call' = [op |-> "CallerPut", hostname |-> hostname]
    /\ UNCHANGED <<portMap, listRef>>

\* The caller runs delete(m, hostname) on the map it holds.
CallerDelete(hostname) ==
    /\ listRef # "nil"
    /\ IF listRef = "hostMap"
       THEN hostMap' = MapDrop(hostMap, {hostname}) /\ UNCHANGED routes
       ELSE routes' = MapDrop(routes, {hostname}) /\ UNCHANGED hostMap
    /\ listed' = MapDrop(listed, {hostname})
    /\ call' = [op |-> "CallerDelete", hostname |-> hostname]
    /\ UNCHANGED <<portMap, listRef>>

ListInit ==
    /\ listRef = "nil"
    /\ routes = EmptyMap
    /\ listed = EmptyMap

(***************************************************************************)
(* Concurrent SetupPeer calls, statement by statement                      *)
(***************************************************************************)
Procs == {"p1", "p2"}
NoProc == "none"

IdleLocals ==
    [key |-> "", entry |-> FirstIP, ip |-> <<>>, peerIP |-> <<>>, config |-> NilConfig,
     err |-> NoErr]

\* w.mu.Lock(): the caller waits until the mutex is free.
MutexFree_NoLock(mu) == TRUE
MutexFree(mu) == mu = NoProc

\* SetupPeer(id, publicKey) is called: the caller goes to w.mu.Lock().
SP_Call(p, publicKey) ==
    /\ pc[p] = "idle"
    /\ pc' = [pc EXCEPT ![p] = "Lock"]
    /\ wloc' = [wloc EXCEPT ![p] = [IdleLocals EXCEPT !.key = publicKey]]
    /\ UNCHANGED <<wmu, nextIP, peers, returned>>

\* w.mu.Lock() returns; entry remembers the cursor the call found.
SP_Lock(p) ==
    /\ pc[p] = "Lock"
    /\ MutexFree(wmu)
    /\ wmu' = p
    /\ pc' = [pc EXCEPT ![p] = "genPrivateKey"]
    /\ wloc' = [wloc EXCEPT ![p].entry = nextIP]
    /\ UNCHANGED <<nextIP, peers, returned>>

\* privKey, err := w.generatePrivateKey()
SP_GenPrivateKey(p, ok) ==
    /\ pc[p] = "genPrivateKey"
    /\ IF ok THEN /\ pc' = [pc EXCEPT ![p] = "genPublicKey"]
                  /\ UNCHANGED wloc
       ELSE /\ pc' = [pc EXCEPT ![p] = "return"]
            /\ wloc' = [wloc EXCEPT ![p].err = "failed to generate private key"]
    /\ UNCHANGED <<wmu, nextIP, peers, returned>>

\* pubKey, err := w.generatePublicKey(privKey)
SP_GenPublicKey(p, ok) ==
    /\ pc[p] = "genPublicKey"
    /\ IF ok THEN /\ pc' = [pc EXCEPT ![p] = "allocateIP"]
                  /\ UNCHANGED wloc
       ELSE /\ pc' = [pc EXCEPT ![p] = "return"]
            /\ wloc' = [wloc EXCEPT ![p].err = "failed to generate public key"]
    /\ UNCHANGED <<wmu, nextIP, peers, returned>>

\* allocateIP, first half: ip is a copy of w.nextIP, incremented.
SP_AllocateIP_Increment(p) ==
    /\ pc[p] = "allocateIP"
    /\ wloc' = [wloc EXCEPT ![p].ip = IncIP(nextIP)]
    /\ pc' = [pc EXCEPT ![p] = "allocateIP.store"]
    /\ UNCHANGED <<wmu, nextIP, peers, returned>>

\* allocateIP, second half: nil if ip is outside the block, else w.nextIP = ip
\* and ip is returned; SetupPeer returns an error on nil.
SP_AllocateIP_Store(p) ==
    /\ pc[p] = "allocateIP.store"
    /\ IF ~Contains(wloc[p].ip)
       THEN /\ pc' = [pc EXCEPT ![p] = "return"]
            /\ wloc' = [wloc EXCEPT ![p].err = "failed to allocate IP for peer"]
            /\ UNCHANGED nextIP
       ELSE /\ pc' = [pc EXCEPT ![p] = "config"]
            /\ wloc' = [wloc EXCEPT ![p].peerIP = wloc[p].ip]
            /\ nextIP' = wloc[p].ip
    /\ UNCHANGED <<wmu, peers, returned>>

\* config := &WireGuardConfig{...}
SP_Config(p) ==
    /\ pc[p] = "config"
    /\ wloc' = [wloc EXCEPT ![p].config =
                   [PublicKey |-> PubKey, PrivateKey |-> PrivKey,
                    ServerIP |-> IPString(nextIP),
                    ClientIP |-> IPString(wloc[p].peerIP),
                    Port |-> BasePort]]
    /\ pc' = [pc EXCEPT ![p] = "addPeer"]
    /\ UNCHANGED <<wmu, nextIP, peers, returned>>

\* err := w.addPeer(publicKey, peerIP)
SP_AddPeer(p, ok) ==
    /\ pc[p] = "addPeer"
    /\ IF ok THEN /\ peers' = MapPut(peers, wloc[p].key, IPString(wloc[p].peerIP))
                  /\ UNCHANGED wloc
       ELSE /\ peers' = peers
            /\ wloc' = [wloc EXCEPT ![p].err = "failed to add WireGuard peer",
                                    ![p].config = NilConfig]
    /\ pc' = [pc EXCEPT ![p] = "return"]
    /\ UNCHANGED <<wmu, nextIP, returned>>

\* return, and the deferred w.mu.Unlock()
SP_Return(p) ==
    /\ pc[p] = "return"
    /\ wmu' = IF wmu = p THEN NoProc ELSE wmu
    /\ returned' = IF wloc[p].err = NoErr
                   THEN Append(returned, wloc[p].config.ClientIP)
                   ELSE returned
    /\ pc' = [pc EXCEPT ![p] = "idle"]
    /\ UNCHANGED <<wloc, nextIP, peers>>

SetupInit ==
    /\ wmu = NoProc
    /\ pc = [p \in Procs |-> "idle"]
    /\ wloc = [p \in Procs |-> IdleLocals]
    /\ returned = <<>>

(***************************************************************************)
(* Concurrent CreateTunnel calls, statement by statement                   *)
(***************************************************************************)
\* A nil *TunnelInfo.
NilTunnel == [nil |-> TRUE]

IdleCreate ==
    [id |-> "", hostname |-> "", targetPort |-> 0, key |-> "", metadata |-> EmptyMap,
     tunnel |-> NilTunnel, err |-> NoErr]

\* m.mu.Lock(): the caller waits until the mutex is free.
ManagerLockFree_NoLock(mu) == TRUE
ManagerLockFree(mu) == mu = NoProc

\* CreateTunnel(id, hostname, targetPort, wgPubKey, metadata) is called: the
\* caller goes to m.mu.Lock().
CT_Call(p, id, hostname, targetPort, wgPubKey, metadata) ==
    /\ mpc[p] = "idle"
    /\ mpc' = [mpc EXCEPT ![p] = "Lock"]
    /\ mloc' = [mloc EXCEPT ![p] =
                   [IdleCreate EXCEPT !.id = id, !.hostname = hostname,
                                      !.targetPort = targetPort, !.key = wgPubKey,
                                      !.metadata = metadata]]
    /\ UNCHANGED <<mmu, createdIDs, managerVars, wgVars>>

\* m.mu.Lock() returns.
CT_Lock(p) ==
    /\ mpc[p] = "Lock"
    /\ ManagerLockFree(mmu)
    /\ mmu' = p
    /\ mpc' = [mpc EXCEPT ![p] = "checkCapacity"]
    /\ UNCHANGED <<mloc, createdIDs, managerVars, wgVars>>

\* if len(m.tunnels) >= m.maxTunnels { return nil, error }
CT_CheckCapacity(p) ==
    /\ mpc[p] = "checkCapacity"
    /\ IF AtCapacity(tunnels, maxTunnels)
       THEN /\ mpc' = [mpc EXCEPT ![p] = "return"]
            /\ mloc' = [mloc EXCEPT ![p].err = ErrCapacity]
       ELSE /\ mpc' = [mpc EXCEPT ![p] = "checkExists"]
            /\ UNCHANGED mloc
    /\ UNCHANGED <<mmu, createdIDs, managerVars, wgVars>>

\* if _, exists := m.tunnels[id]; exists { return nil, error }
CT_CheckExists(p) ==
    /\ mpc[p] = "checkExists"
    /\ IF TunnelExists(tunnels, mloc[p].id)
       THEN /\ mpc' = [mpc EXCEPT ![p] = "return"]
            /\ mloc' = [mloc EXCEPT ![p].err = ErrExists]
       ELSE /\ mpc' = [mpc EXCEPT ![p] = "build"]
            /\ UNCHANGED mloc
    /\ UNCHANGED <<mmu, createdIDs, managerVars, wgVars>>

\* tunnel := &TunnelInfo{...}, and the test of wgPubKey that follows.
CT_Build(p) ==
    /\ mpc[p] = "build"
    /\ mloc' = [mloc EXCEPT ![p].tunnel =
                   TunnelInfo(mloc[p].id, mloc[p].hostname, mloc[p].targetPort,
                              now, now, NilConfig, mloc[p].metadata)]
    /\ mpc' = [mpc EXCEPT ![p] = IF mloc[p].key # "" THEN "setupPeer" ELSE "store"]
    /\ UNCHANGED <<mmu, createdIDs, managerVars, wgVars>>

\* wgConfig, err := m.wg.SetupPeer(id, wgPubKey), and what follows it: return
\* on an error, else tunnel.WireGuardConfig = wgConfig.
CT_SetupPeer(p, env) ==
    /\ mpc[p] = "setupPeer"
    /\ LET r == SetupPeer(nextIP, peers, mloc[p].id, mloc[p].key, env)
       IN /\ nextIP' = r.nextIP
          /\ peers' = r.peers
          /\ IF r.err # NoErr
             THEN /\ mpc' = [mpc EXCEPT ![p] = "return"]
                  /\ mloc' = [mloc EXCEPT ![p].err = ErrSetupPeer]
             ELSE /\ mpc' = [mpc EXCEPT ![p] = "store"]
                  /\ mloc' = [mloc EXCEPT ![p].tunnel.WireGuardConfig = r.config]
    /\ UNCHANGED <<mmu, createdIDs, managerVars>>

\* m.tunnels[id] = tunnel
CT_Store(p) ==
    /\ mpc[p] = "store"
    /\ tunnels' = MapPut(tunnels, mloc[p].id, mloc[p].tunnel)
    /\ mpc' = [mpc EXCEPT ![p] = "return"]
    /\ UNCHANGED <<mmu, mloc, createdIDs, maxTunnels, now, wgVars>>

\* return, and the deferred m.mu.Unlock()
CT_Return(p) ==
    /\ mpc[p] = "return"
    /\ mmu' = IF mmu = p THEN NoProc ELSE mmu
    /\ createdIDs' = IF mloc[p].err = NoErr THEN Append(createdIDs, mloc[p].id) ELSE createdIDs
    /\ mpc' = [mpc EXCEPT ![p] = "idle"]
    /\ mloc' = [mloc EXCEPT ![p] = IdleCreate]
    /\ UNCHANGED <<managerVars, wgVars>>

\* GetTunnel(id) called beside the CreateTunnel callers: m.mu.RLock() waits
\* while a caller holds m.mu locked; the lookup and the RUnlock follow at once.
CT_GetTunnel(id) ==
    /\ ManagerLockFree(mmu)
    /\ GetTunnel(id)
    /\ UNCHANGED createVars

CreateInit ==
    /\ mmu = NoProc
    /\ mpc = [p \in Procs |-> "idle"]
    /\ mloc = [p \in Procs |-> IdleCreate]
    /\ createdIDs = <<>>

(***************************************************************************)
(* Concurrent AddRoute calls and lookups, statement by statement           *)
(***************************************************************************)
IdleAdd == [id |-> "", hostname |-> "", ip |-> "", port |-> 0, err |-> NoErr]

\* r.mu.Lock() and r.mu.RLock(): the caller waits while a writer holds r.mu.
\* (A reader holds it only within its own step.)
RouterLockFree_NoLock(mu) == TRUE
RouterLockFree(mu) == mu = NoProc

\* AddRoute(tunnelID, hostname, ip, port) is called: the caller goes to
\* r.mu.Lock().
AR_Call(p, tunnelID, hostname, ip, port) ==
    /\ rpc[p] = "idle"
    /\ rpc' = [rpc EXCEPT ![p] = "Lock"]
    /\ rloc' = [rloc EXCEPT ![p] = [IdleAdd EXCEPT !.id = tunnelID, !.hostname = hostname,
                                                   !.ip = ip, !.port = port]]
    /\ UNCHANGED <<rmu, routerVars, call>>

\* r.mu.Lock() returns; target := &Target{...} is built.
AR_Lock(p) ==
    /\ rpc[p] = "Lock"
    /\ RouterLockFree(rmu)
    /\ rmu' = p
    /\ rpc' = [rpc EXCEPT ![p] = "checkHost"]
    /\ UNCHANGED <<rloc, routerVars, call>>

\* if _, exists := r.hostMap[hostname]; exists { return error }
AR_CheckHost(p) ==
    /\ rpc[p] = "checkHost"
    /\ IF HostnameInUse(hostMap, rloc[p].hostname)
       THEN /\ rpc' = [rpc EXCEPT ![p] = "return"]
            /\ rloc' = [rloc EXCEPT ![p].err = "hostname is already in use"]
       ELSE /\ rpc' = [rpc EXCEPT ![p] = "putHost"]
            /\ UNCHANGED rloc
    /\ UNCHANGED <<rmu, routerVars, call>>

\* r.hostMap[hostname] = target, and the test of port that follows.
AR_PutHost(p) ==
    /\ rpc[p] = "putHost"
    /\ hostMap' = MapPut(hostMap, rloc[p].hostname,
                         Target(rloc[p].id, rloc[p].ip, rloc[p].port))
    /\ rpc' = [rpc EXCEPT ![p] = IF rloc[p].port > 0 THEN "checkPort" ELSE "return"]
    /\ UNCHANGED <<rmu, rloc, portMap, call>>

\* if _, exists := r.portMap[port]; exists { return error }
AR_CheckPort(p) ==
    /\ rpc[p] = "checkPort"
    /\ IF PortInUse(portMap, rloc[p].port)
       THEN /\ rpc' = [rpc EXCEPT ![p] = "return"]
            /\ rloc' = [rloc EXCEPT ![p].err = "port is already in use"]
       ELSE /\ rpc' = [rpc EXCEPT ![p] = "putPort"]
            /\ UNCHANGED rloc
    /\ UNCHANGED <<rmu, routerVars, call>>

\* r.portMap[port] = target
AR_PutPort(p) ==
    /\ rpc[p] = "putPort"
    /\ portMap' = MapPut(portMap, rloc[p].port,
                         Target(rloc[p].id, rloc[p].ip, rloc[p].port))
    /\ rpc' = [rpc EXCEPT ![p] = "return"]
    /\ UNCHANGED <<rmu, rloc, hostMap, call>>

\* return, and the deferred r.mu.Unlock()
AR_Return(p) ==
    /\ rpc[p] = "return"
    /\ rmu' = IF rmu = p THEN NoProc ELSE rmu
    /\ call' = [op |-> "AddRoute", id |-> rloc[p].id, hostname |-> rloc[p].hostname,
                 ip |-> rloc[p].ip, port |-> rloc[p].port, err |-> rloc[p].err]
    /\ rpc' = [rpc EXCEPT ![p] = "idle"]
    /\ rloc' = [rloc EXCEPT ![p] = IdleAdd]
    /\ UNCHANGED routerVars

\* GetTunnelByHost and GetTunnelByPort beside the AddRoute callers:
\* r.mu.RLock(), the lookup, and the deferred RUnlock.
AR_GetTunnelByHost(hostname) ==
    /\ RouterLockFree(rmu)
    /\ GetTunnelByHost(hostname)
    /\ UNCHANGED addVars

AR_GetTunnelByPort(port) ==
    /\ RouterLockFree(rmu)
    /\ GetTunnelByPort(port)
    /\ UNCHANGED addVars

\* RemoveRoute beside them: r.mu.Lock(), both loops, and the deferred Unlock.
AR_RemoveRoute(tunnelID) ==
    /\ RouterLockFree(rmu)
    /\ RemoveRoute(tunnelID)
    /\ UNCHANGED addVars

AddInit ==
    /\ rmu = NoProc
    /\ rpc = [p \in Procs |-> "idle"]
    /\ rloc = [p \in Procs |-> IdleAdd]

(***************************************************************************)
(* A caller keeping what GetTunnel and GetAllTunnels returned              *)
(***************************************************************************)
\* Nothing kept.
NoHeld == [id |-> "", got |-> NilTunnel, seen |-> NilTunnel, live |-> FALSE]

\* GetTunnel returns m.tunnels[id] itself, a *TunnelInfo, and GetAllTunnels a
\* slice of the same pointers: "pointer" (a record of the caller's own would
\* be "copy").
ResultKind == "pointer"

\* What the caller holds right after the call returned rec for id.
HeldResult(id, rec) ==
    [id |-> id, got |-> rec, seen |-> rec, live |-> ResultKind = "pointer"]

\* The caller keeps the result of GetTunnel(id), which found the record.
HoldGetTunnel(id) ==
    /\ TunnelExists(tunnels, id)
    /\ GetTunnel(id)
    /\ held' = HeldResult(id, tunnels[id])

\* The caller keeps element i of the slice GetAllTunnels returned.
HoldGetAllTunnels(list, i) ==
    /\ list \in GetAllTunnels(tunnels)
    /\ i \in DOMAIN list
    /\ call' = [op |-> "GetAllTunnels", len |-> Len(list)]
    /\ held' = HeldResult(list[i].ID, list[i])
    /\ UNCHANGED <<managerVars, wgVars>>

\* A step of the Manager, seen through the result kept: while the pointer
\* kept is the one stored in m.tunnels, it reads what the registry's record
\* holds; once RemoveTunnel has deleted the entry the object is no longer
\* written by anyone.
HeldFollows ==
    held' = IF held.id = "" THEN held
            ELSE LET stored == held.live /\ held.id \in DOMAIN tunnels'
                 IN [held EXCEPT !.live = stored,
                                 !.seen = IF stored THEN tunnels'[held.id] ELSE held.seen]

HoldInit == held = NoHeld

ProcInit == SetupInit /\ CreateInit /\ TCPInit /\ ListInit /\ AddInit /\ HoldInit /\ AcceptInit

(***************************************************************************)
(* Lookup of a tunnel by its hostname                                      *)
(***************************************************************************)
\* GetTunnelByHostname: the loop over m.tunnels, visited in order o from its
\* i-th key on, returns the first record whose Hostname matches, nil and an
\* error when none does.
RECURSIVE ScanFrom(_, _, _, _)
ScanFrom(tuns, hostname, o, i) ==
    IF i > Cardinality(DOMAIN o) THEN NilTunnel
    ELSE IF tuns[o[i]].Hostname = hostname THEN tuns[o[i]]
    ELSE ScanFrom(tuns, hostname, o, i + 1)

\* One call of GetTunnelByHostname, the map being visited in order o.
GetTunnelByHostname(hostname, o) ==
    /\ o \in IterationOrders(tunnels)
    /\ call' = [op |-> "GetTunnelByHostname", hostname |-> hostname,
                 res |-> ScanFrom(tunnels, hostname, o, 1),
                 err |-> IF ScanFrom(tunnels, hostname, o, 1) = NilTunnel
                         THEN ErrNotFound ELSE NoErr]
    /\ UNCHANGED <<managerVars, wgVars>>

(***************************************************************************)
(* Configuration: LoadConfig, validate, and the ports main derives         *)
(***************************************************************************)
\* The values API_PORT and PUBLIC_PORT may be set to.
PortChoices == {-1, 0, 1, 443, 8080, 65534, 65535, 65536}

\* TLS_CERT_PATH and TLS_KEY_PATH: unset or set.
CertPaths == {"", "cert.pem"}
KeyPaths == {"", "key.pem"}

\* The environment read into a ServerConfig, before validation.
EnvConfigs ==
    {[op |-> "getenv", APIPort |-> a, PublicPort |-> q, TLSCertPath |-> c,
      TLSKeyPath |-> k, err |-> NoErr, TCPPort |-> 0] :
        a \in PortChoices, q \in PortChoices, c \in CertPaths, k \in KeyPaths}

\* ServerConfig.validate
validate(c) ==
    IF c.APIPort <= 0 \/ c.APIPort > 65535 THEN "invalid API port"
    ELSE IF c.PublicPort <= 0 \/ c.PublicPort > 65535 THEN "invalid public port"
    ELSE IF \/ (c.TLSCertPath # "" /\ c.TLSKeyPath = "")
            \/ (c.TLSCertPath = "" /\ c.TLSKeyPath # "")
         THEN "both TLS certificate and key must be provided"
    ELSE NoErr

\* LoadConfig: the configuration is validated.
LoadConfig ==
    /\ call.op = "getenv"
    /\ call' = [call EXCEPT !.op = "LoadConfig", !.err = validate(call)]

\* main, with a configuration LoadConfig returned without error: lbConfig is
\* built with HTTPPort: cfg.PublicPort and TCPPort: cfg.PublicPort + 1.
main ==
    /\ call.op = "LoadConfig"
    /\ call.err = NoErr
    /\ call' = [call EXCEPT !.op = "main", !.TCPPort = call.PublicPort + 1]

(***************************************************************************)
(* Specifications                                                          *)
(***************************************************************************)
Init ==
    /\ RouterInit /\ WGInit /\ ManagerInit /\ ProcInit
    /\ call = [op |-> "NewManager"]

\* One Manager, with its WireGuardManager, and the calls on it.
Next ==
    \/ \E id \in TunnelIDs, h \in Hostnames, tp \in TargetPorts, k \in PeerKeys,
          md \in Metadatas :
          \E t2 \in ReadingsFor(tunnels, maxTunnels, id, now),
             env \in EnvsFor(tunnels, maxTunnels, id, k) :
             /\ AllocsLeft(id, k)
             /\ CreateTunnel(id, h, tp, k, md, t2, env)
             /\ UNCHANGED <<routerVars, procVars>>
    \/ \E id \in TunnelIDs, peerOk \in BOOLEAN :
          /\ peerOk \/ CallsRemovePeer(tunnels, id)
          /\ RemoveTunnel(id, peerOk)
          /\ UNCHANGED <<routerVars, procVars>>
    \/ \E id \in TunnelIDs : GetTunnel(id) /\ UNCHANGED <<routerVars, procVars>>
    \/ \E id \in TunnelIDs : UpdateLastActive(id) /\ UNCHANGED <<routerVars, procVars>>
    \/ Tick /\ UNCHANGED <<routerVars, procVars>>

Spec == Init /\ [][Next]_vars

\* One Manager under create/remove churn, followed from two moments of its
\* life: from construction, and late, when 65,532 CreateTunnel calls with a
\* peer key have each taken an address and failed in addPeer, so that the
\* cursor stands at 10.10.255.253 with no peer registered and no tunnel live.
\* From either moment tunnels are created and removed under every outcome of
\* the wg commands.
LateCursor == <<0, 0, 0, 0, 0, 0, 0, 0, 0, 0, 255, 255, 10, 10, 255, 253>>
ChurnCursors == {FirstIP, LateCursor}

\* The calls followed: those that take no address, those made while fewer than
\* MaxAllocs addresses are out, and all of them from LateCursor on, where the
\* end of the block is the bound.
ChurnAllocsLeft(id, wgPubKey) ==
    CallsSetupPeer(tunnels, maxTunnels, id, wgPubKey)
        => \/ NearStart(nextIP)
           \/ IPValue(To4(nextIP)) >= IPValue(To4(LateCursor))

InitChurn ==
    /\ RouterInit /\ ProcInit
    /\ nextIP \in ChurnCursors /\ peers = EmptyMap
    /\ maxTunnels = MaxTunnelsBound /\ tunnels = EmptyMap /\ now = 0
    /\ call = [op |-> "NewManager"]

NextChurn ==
    \/ \E id \in TunnelIDs, h \in Hostnames, tp \in TargetPorts, k \in PeerKeys,
          md \in Metadatas :
          \E env \in EnvsFor(tunnels, maxTunnels, id, k) :
             /\ ChurnAllocsLeft(id, k)
             /\ CreateTunnel(id, h, tp, k, md, now, env)
             /\ UNCHANGED <<routerVars, procVars>>
    \/ \E id \in TunnelIDs, peerOk \in BOOLEAN :
          /\ peerOk \/ CallsRemovePeer(tunnels, id)
          /\ RemoveTunnel(id, peerOk)
          /\ UNCHANGED <<routerVars, procVars>>

SpecChurn == InitChurn /\ [][NextChurn]_vars

\* The agent as cmd/main.go wires it: the API handlers on the Manager, the
\* HTTP dispatcher on the Router.
InitAgent ==
    /\ RouterInit /\ WGInit /\ ManagerInit /\ ProcInit
    /\ call = [op |-> "main"]

\* The number of required fields a decoded request leaves empty or, for the
\* port, not positive.
FaultCount(r) ==
    (IF r.TunnelID = "" THEN 1 ELSE 0) + (IF r.Hostname = "" THEN 1 ELSE 0)
    + (IF r.TargetPort <= 0 THEN 1 ELSE 0)

\* The requests sent to /api/new-tunnel: by POST every complete body, and the
\* bodies without a peer key that lack one required field; one body that does
\* not decode; one complete body by GET.
CreateCalls ==
    {[method |-> "POST", decodes |-> TRUE, req |-> r] :
        r \in {q \in CreateRequests :
                 \/ FaultCount(q) = 0
                 \/ FaultCount(q) = 1 /\ q.WireGuardPublicKey = ""
                      /\ q.TunnelID # "t2" /\ q.Hostname # "b.example.com"}}
    \cup {[method |-> "POST", decodes |-> FALSE, req |-> ZeroRequest]}
    \cup {[method |-> "GET", decodes |-> TRUE, req |-> r] :
            r \in {q \in CreateRequests :
                     q.TunnelID = "t1" /\ q.Hostname = "a.example.com"
                     /\ q.TargetPort > 0 /\ q.WireGuardPublicKey = ""}}

\* The requests sent to /api/remove-tunnel.
RemoveCalls ==
    {[method |-> "POST", decodes |-> TRUE, id |-> i] : i \in TunnelIDs \cup {""}}
    \cup {[method |-> "POST", decodes |-> FALSE, id |-> ""],
          [method |-> "GET", decodes |-> TRUE, id |-> "t1"]}

NextAgent ==
    \/ \E c \in CreateCalls :
          \E t2 \in ReadingsFor(tunnels, maxTunnels, c.req.TunnelID, now),
             env \in EnvsFor(tunnels, maxTunnels, c.req.TunnelID, c.req.WireGuardPublicKey) :
             /\ CreateRequestReject(c.method, c.decodes, c.req) = 0
                   => AllocsLeft(c.req.TunnelID, c.req.WireGuardPublicKey)
             /\ handleCreateTunnel(c.method, c.decodes, c.req, t2, env)
    \/ \E c \in RemoveCalls, peerOk \in BOOLEAN :
          /\ peerOk \/ CallsRemovePeer(tunnels, c.id)
          /\ handleRemoveTunnel(c.method, c.decodes, c.id, peerOk)
    \/ \E method \in Methods :
          \E list \in (IF method = "GET" THEN GetAllTunnels(tunnels) ELSE {<<>>}) :
             handleStatus(method, list)
    \/ \E host \in Hostnames : handleHTTPRequest(host)
    \/ Tick /\ UNCHANGED <<routerVars, procVars>>

SpecAgent == InitAgent /\ [][NextAgent]_vars

\* One Router and the calls on it.
InitRouter ==
    /\ RouterInit /\ WGInit /\ ProcInit
    /\ maxTunnels = MaxTunnelsBound /\ tunnels = EmptyMap /\ now = 0
    /\ call = [op |-> "NewRouter"]

NextRouter ==
    \/ \E id \in TunnelIDs, h \in Hostnames, ip \in BackendIPs, port \in RoutePorts :
          AddRoute(id, h, ip, port) /\ UNCHANGED <<managerVars, wgVars, procVars>>
    \/ \E id \in TunnelIDs :
          RemoveRoute(id) /\ UNCHANGED <<managerVars, wgVars, procVars>>
    \/ \E h \in Hostnames :
          GetTunnelByHost(h) /\ UNCHANGED <<managerVars, wgVars, procVars>>
    \/ \E port \in RoutePorts :
          GetTunnelByPort(port) /\ UNCHANGED <<managerVars, wgVars, procVars>>

SpecRouter == InitRouter /\ [][NextRouter]_vars

\* One Router with concurrent AddRoute callers, lookups and RemoveRoute calls.
InitAdd ==
    /\ RouterInit /\ WGInit /\ ProcInit
    /\ maxTunnels = MaxTunnelsBound /\ tunnels = EmptyMap /\ now = 0
    /\ call = [op |-> "NewRouter"]

AddFrame == UNCHANGED <<managerVars, wgVars, setupVars, createVars, tcpVars, listVars, holdVars, acceptVars>>

\* The ports concurrent callers route: none, and the listener's.
AddPorts == {0} \cup ListenPorts

NextAdd ==
    \/ \E p \in Procs, id \in TunnelIDs, h \in Hostnames, port \in AddPorts :
          AR_Call(p, id, h, "10.0.0.1", port) /\ AddFrame
    \/ \E p \in Procs : AR_Lock(p) /\ AddFrame
    \/ \E p \in Procs : AR_CheckHost(p) /\ AddFrame
    \/ \E p \in Procs : AR_PutHost(p) /\ AddFrame
    \/ \E p \in Procs : AR_CheckPort(p) /\ AddFrame
    \/ \E p \in Procs : AR_PutPort(p) /\ AddFrame
    \/ \E p \in Procs : AR_Return(p) /\ AddFrame
    \/ \E h \in Hostnames : AR_GetTunnelByHost(h) /\ AddFrame
    \/ \E port \in ListenPorts : AR_GetTunnelByPort(port) /\ AddFrame
    \/ \E id \in TunnelIDs : AR_RemoveRoute(id) /\ AddFrame

SpecAdd == InitAdd /\ [][NextAdd]_vars

\* One Manager, and a caller that keeps a result of GetTunnel or
\* GetAllTunnels while further calls are made.
InitHold ==
    /\ RouterInit /\ WGInit /\ ProcInit
    /\ maxTunnels = MaxTunnelsBound /\ tunnels = EmptyMap /\ now = 0
    /\ call = [op |-> "NewManager"]

HoldFrame == UNCHANGED <<routerVars, setupVars, createVars, tcpVars, listVars, addVars, acceptVars>>

NextHold ==
    \/ \E id \in TunnelIDs, h \in Hostnames, tp \in TargetPorts, k \in PeerKeys,
          md \in Metadatas :
          /\ AllocsLeft(id, k)
          /\ CreateTunnel(id, h, tp, k, md, now, EnvOk)
          /\ HeldFollows /\ HoldFrame
    \/ \E id \in TunnelIDs : RemoveTunnel(id, TRUE) /\ HeldFollows /\ HoldFrame
    \/ \E id \in TunnelIDs : UpdateLastActive(id) /\ HeldFollows /\ HoldFrame
    \/ Tick /\ HeldFollows /\ HoldFrame
    \/ \E id \in TunnelIDs : HoldGetTunnel(id) /\ HoldFrame
    \/ \E list \in GetAllTunnels(tunnels) : \E i \in DOMAIN list :
          HoldGetAllTunnels(list, i) /\ HoldFrame

SpecHold == InitHold /\ [][NextHold]_vars

\* One WireGuardManager and concurrent SetupPeer callers.
InitWG ==
    /\ RouterInit /\ WGInit /\ ProcInit
    /\ maxTunnels = MaxTunnelsBound /\ tunnels = EmptyMap /\ now = 0
    /\ call = [op |-> "NewWireGuardManager"]

NextWG ==
    \* a new call is followed only while fewer than MaxAllocs addresses are out
    \/ \E p \in Procs, k \in PeerKeys \ {""} :
          NearStart(nextIP) /\ SP_Call(p, k) /\ UNCHANGED <<routerVars, managerVars, call, createVars, tcpVars, listVars, addVars, holdVars, acceptVars>>
    \/ \E p \in Procs :
          SP_Lock(p) /\ UNCHANGED <<routerVars, managerVars, call, createVars, tcpVars, listVars, addVars, holdVars, acceptVars>>
    \/ \E p \in Procs, ok \in BOOLEAN :
          SP_GenPrivateKey(p, ok) /\ UNCHANGED <<routerVars, managerVars, call, createVars, tcpVars, listVars, addVars, holdVars, acceptVars>>
    \/ \E p \in Procs, ok \in BOOLEAN :
          SP_GenPublicKey(p, ok) /\ UNCHANGED <<routerVars, managerVars, call, createVars, tcpVars, listVars, addVars, holdVars, acceptVars>>
    \/ \E p \in Procs :
          SP_AllocateIP_Increment(p) /\ UNCHANGED <<routerVars, managerVars, call, createVars, tcpVars, listVars, addVars, holdVars, acceptVars>>
    \/ \E p \in Procs :
          SP_AllocateIP_Store(p) /\ UNCHANGED <<routerVars, managerVars, call, createVars, tcpVars, listVars, addVars, holdVars, acceptVars>>
    \/ \E p \in Procs :
          SP_Config(p) /\ UNCHANGED <<routerVars, managerVars, call, createVars, tcpVars, listVars, addVars, holdVars, acceptVars>>
    \/ \E p \in Procs, ok \in BOOLEAN :
          SP_AddPeer(p, ok) /\ UNCHANGED <<routerVars, managerVars, call, createVars, tcpVars, listVars, addVars, holdVars, acceptVars>>
    \/ \E p \in Procs :
          SP_Return(p) /\ UNCHANGED <<routerVars, managerVars, call, createVars, tcpVars, listVars, addVars, holdVars, acceptVars>>

SpecWG == InitWG /\ [][NextWG]_vars

\* One WireGuardManager whose cursor stands anywhere in the block, and runs of
\* allocateIP from there.
MaxRun == 3

\* The byte values at and around the carries.
EdgeBytes == {0, 1, 127, 128, 254, 255}

\* The cursors a run starts from: 10.10.a.b for edge bytes a and b, from
\* 10.10.0.1 on.
StartCursors ==
    {[FirstIP EXCEPT ![15] = a, ![16] = b] : a \in EdgeBytes, b \in EdgeBytes}
        \ {[FirstIP EXCEPT ![15] = 0, ![16] = 0]}

InitAlloc ==
    /\ RouterInit /\ ProcInit
    /\ nextIP \in StartCursors /\ peers = EmptyMap
    /\ maxTunnels = MaxTunnelsBound /\ tunnels = EmptyMap /\ now = 0
    /\ call = [op |-> "NewWireGuardManager"]

NextAlloc ==
    /\ call.op = "allocateIP" => call.n < MaxRun
    /\ allocateIP
    /\ UNCHANGED <<routerVars, managerVars, procVars>>

SpecAlloc == InitAlloc /\ [][NextAlloc]_vars

\* The entry point: the environment is read, validated, and the listeners'
\* ports derived.
InitConfig ==
    /\ RouterInit /\ WGInit /\ ProcInit
    /\ maxTunnels = MaxTunnelsBound /\ tunnels = EmptyMap /\ now = 0
    /\ call \in EnvConfigs

NextConfig ==
    \/ LoadConfig /\ UNCHANGED <<routerVars, managerVars, wgVars, procVars>>
    \/ main /\ UNCHANGED <<routerVars, managerVars, wgVars, procVars>>

SpecConfig == InitConfig /\ [][NextConfig]_vars

\* One Manager and concurrent CreateTunnel callers.
InitCreate ==
    /\ RouterInit /\ WGInit /\ ManagerInit /\ ProcInit
    /\ call = [op |-> "NewManager"]

NextCreate ==
    \/ \E p \in Procs, id \in TunnelIDs, h \in Hostnames, tp \in TargetPorts,
          k \in PeerKeys, md \in Metadatas :
          /\ k # "" => NearStart(nextIP)
          /\ CT_Call(p, id, h, tp, k, md) /\ UNCHANGED <<routerVars, call, setupVars, tcpVars, listVars, addVars, holdVars, acceptVars>>
    \/ \E p \in Procs : CT_Lock(p) /\ UNCHANGED <<routerVars, call, setupVars, tcpVars, listVars, addVars, holdVars, acceptVars>>
    \/ \E p \in Procs : CT_CheckCapacity(p) /\ UNCHANGED <<routerVars, call, setupVars, tcpVars, listVars, addVars, holdVars, acceptVars>>
    \/ \E p \in Procs : CT_CheckExists(p) /\ UNCHANGED <<routerVars, call, setupVars, tcpVars, listVars, addVars, holdVars, acceptVars>>
    \/ \E p \in Procs : CT_Build(p) /\ UNCHANGED <<routerVars, call, setupVars, tcpVars, listVars, addVars, holdVars, acceptVars>>
    \/ \E p \in Procs, env \in Envs :
          CT_SetupPeer(p, env) /\ UNCHANGED <<routerVars, call, setupVars, tcpVars, listVars, addVars, holdVars, acceptVars>>
    \/ \E p \in Procs : CT_Store(p) /\ UNCHANGED <<routerVars, call, setupVars, tcpVars, listVars, addVars, holdVars, acceptVars>>
    \/ \E p \in Procs : CT_Return(p) /\ UNCHANGED <<routerVars, call, setupVars, tcpVars, listVars, addVars, holdVars, acceptVars>>
    \/ \E id \in TunnelIDs :
          CT_GetTunnel(id) /\ UNCHANGED <<routerVars, setupVars, tcpVars, listVars, addVars, holdVars, acceptVars>>

SpecCreate == InitCreate /\ [][NextCreate]_vars

\* The traffic dispatcher on one Router: routes come and go, HTTP requests are
\* dispatched, and one TCP connection at a time is accepted and proxied.
InitLB ==
    /\ RouterInit /\ WGInit /\ ProcInit
    /\ maxTunnels = MaxTunnelsBound /\ tunnels = EmptyMap /\ now = 0
    /\ call = [op |-> "NewLoadBalancer"]

TCPCall == call' = [op |-> "handleTCPConnection"]
TCPFrame == UNCHANGED <<routerVars, managerVars, wgVars, setupVars, createVars, listVars, addVars, holdVars, acceptVars>>

\* The routes installed and removed while traffic is dispatched: one tunnel,
\* one hostname, without a port, with the listener's port and with another.
DispatchRoutes ==
    {[id |-> "t1", hostname |-> "a.example.com", ip |-> "10.0.0.1", port |-> q] :
        q \in RoutePorts}

NextLB ==
    \/ \E r \in DispatchRoutes :
          AddRoute(r.id, r.hostname, r.ip, r.port)
          /\ UNCHANGED <<managerVars, wgVars, procVars>>
    \/ \E r \in DispatchRoutes :
          RemoveRoute(r.id) /\ UNCHANGED <<managerVars, wgVars, procVars>>
    \/ \E h \in Hostnames : handleHTTPRequest(h)
    \/ \E port \in ListenPorts : TCP_Accept(port) /\ TCPCall /\ TCPFrame
    \/ TCP_Lookup /\ TCPCall /\ TCPFrame
    \/ \E ok \in BOOLEAN : TCP_Dial(ok) /\ TCPCall /\ TCPFrame
    \/ TCP_Spawn /\ TCPCall /\ TCPFrame
    \/ \E d \in Directions : Proxy_Read(d) /\ TCPCall /\ TCPFrame
    \/ \E d \in Directions, ok \in BOOLEAN : Proxy_Write(d, ok) /\ TCPCall /\ TCPFrame
    \/ TCP_CloseBackend /\ TCPCall /\ TCPFrame
    \/ TCP_CloseClient /\ TCPCall /\ TCPFrame
    \/ \E side \in Sides : PeerSends(side) /\ TCPCall /\ TCPFrame
    \/ \E side \in Sides, how \in {"eof", "error"} :
          PeerCloses(side, how) /\ TCPCall /\ TCPFrame

SpecLB == InitLB /\ [][NextLB]_vars

\* The steps of the handler goroutine and of the pump goroutine: the Go
\* scheduler runs a goroutine that can take a step; the peers and the callers
\* of the Router are under no such obligation.
FairLB ==
    /\ WF_vars(TCP_Lookup /\ TCPCall /\ TCPFrame)
    /\ WF_vars(\E ok \in BOOLEAN : TCP_Dial(ok) /\ TCPCall /\ TCPFrame)
    /\ WF_vars(TCP_Spawn /\ TCPCall /\ TCPFrame)
    /\ \A d \in Directions : WF_vars(Proxy_Read(d) /\ TCPCall /\ TCPFrame)
    /\ \A d \in Directions :
          WF_vars(\E ok \in BOOLEAN : Proxy_Write(d, ok) /\ TCPCall /\ TCPFrame)
    /\ WF_vars(TCP_CloseBackend /\ TCPCall /\ TCPFrame)
    /\ WF_vars(TCP_CloseClient /\ TCPCall /\ TCPFrame)

SpecLBFair == SpecLB /\ FairLB

\* The traffic dispatcher beside a Manager that holds the tunnel the routes
\* name: tunnels are created and time passes while traffic is dispatched.
InitTraffic == InitLB

NextTraffic ==
    \/ NextLB
    \/ \E r \in DispatchRoutes, tp \in TargetPorts, md \in Metadatas :
          /\ CreateTunnel(r.id, r.hostname, tp, "", md, now, EnvOk)
          /\ UNCHANGED <<routerVars, procVars>>
    \/ Tick /\ UNCHANGED <<routerVars, procVars>>

SpecTraffic == InitTraffic /\ [][NextTraffic]_vars

SpecTrafficFair == SpecTraffic /\ FairLB

\* The traffic dispatcher with its accept loops: Start opens a listener,
\* connections are accepted while its loop runs, Accept may fail, Stop closes
\* the listener and Start may be called again.
InitAccept == InitLB

AcceptFrame == UNCHANGED <<routerVars, managerVars, wgVars, setupVars, createVars, listVars, addVars, holdVars>>

\* The route installed and removed beside the accept loops: the one on the
\* listener's port.
AcceptRoutes == {r \in DispatchRoutes : r.port \in ListenPorts}

NextAccept ==
    \/ \E r \in AcceptRoutes :
          AddRoute(r.id, r.hostname, r.ip, r.port)
          /\ UNCHANGED <<managerVars, wgVars, procVars>>
    \/ \E r \in AcceptRoutes :
          RemoveRoute(r.id) /\ UNCHANGED <<managerVars, wgVars, procVars>>
    \/ \E ok \in BOOLEAN : Start(ok) /\ AcceptFrame
    \/ \E g \in 1..MaxStarts : Accept_Conn(g) /\ AcceptFrame
    \/ \E g \in 1..MaxStarts, port \in ListenPorts : Accept_Dispatch(g, port) /\ AcceptFrame
    \/ \E g \in 1..MaxStarts, err \in OpenAcceptErrors : Accept_Error(g, err) /\ AcceptFrame
    \/ \E g \in 1..MaxStarts : Accept_Closed(g) /\ AcceptFrame
    \/ Stop /\ AcceptFrame
    \/ TCP_Lookup /\ TCPCall /\ TCPFrame
    \/ \E ok \in BOOLEAN : TCP_Dial(ok) /\ TCPCall /\ TCPFrame
    \/ TCP_Spawn /\ TCPCall /\ TCPFrame
    \/ \E d \in Directions : Proxy_Read(d) /\ TCPCall /\ TCPFrame
    \/ \E d \in Directions, ok \in BOOLEAN : Proxy_Write(d, ok) /\ TCPCall /\ TCPFrame
    \/ TCP_CloseBackend /\ TCPCall /\ TCPFrame
    \/ TCP_CloseClient /\ TCPCall /\ TCPFrame
    \/ \E side \in Sides : PeerSends(side) /\ TCPCall /\ TCPFrame
    \/ \E side \in Sides, how \in {"eof", "error"} :
          PeerCloses(side, how) /\ TCPCall /\ TCPFrame

SpecAccept == InitAccept /\ [][NextAccept]_vars

\* Closing a listener wakes the goroutine blocked in its Accept, and the Go
\* scheduler runs it; the go statement after an Accept does not wait.
FairAccept ==
    /\ WF_vars(\E g \in 1..MaxStarts : Accept_Closed(g) /\ AcceptFrame)
    /\ WF_vars(\E g \in 1..MaxStarts, port \in ListenPorts :
                  Accept_Dispatch(g, port) /\ AcceptFrame)

SpecAcceptFair == SpecAccept /\ FairAccept

\* One Manager, tunnels created and removed, and lookups by hostname.
InitFind ==
    /\ RouterInit /\ WGInit /\ ProcInit
    /\ maxTunnels = MaxTunnelsBound /\ tunnels = EmptyMap /\ now = 0
    /\ call = [op |-> "NewManager"]

NextFind ==
    \/ \E id \in TunnelIDs, h \in Hostnames, tp \in TargetPorts, md \in Metadatas :
          /\ CreateTunnel(id, h, tp, "", md, now, EnvOk)
          /\ UNCHANGED <<routerVars, procVars>>
    \/ \E id \in TunnelIDs : RemoveTunnel(id, TRUE) /\ UNCHANGED <<routerVars, procVars>>
    \/ Tick /\ UNCHANGED <<routerVars, procVars>>
    \/ \E h \in Hostnames : \E o \in IterationOrders(tunnels) :
          GetTunnelByHostname(h, o) /\ UNCHANGED <<routerVars, procVars>>

SpecFind == InitFind /\ [][NextFind]_vars

\* One Router, and a caller of ListRoutes that keeps and edits the map it got
\* while routes are added and removed.
InitList ==
    /\ RouterInit /\ WGInit /\ ProcInit
    /\ maxTunnels = MaxTunnelsBound /\ tunnels = EmptyMap /\ now = 0
    /\ call = [op |-> "NewRouter"]

\* The routes of this specification: without a port, to one backend.
ListedRoutes ==
    {[id |-> i, hostname |-> h, ip |-> "10.0.0.1", port |-> 0] :
        i \in TunnelIDs, h \in Hostnames}

ListFrame == UNCHANGED <<managerVars, wgVars, setupVars, createVars, tcpVars, addVars, holdVars, acceptVars>>

NextList ==
    \/ \E r \in ListedRoutes :
          AddRoute(r.id, r.hostname, r.ip, r.port) /\ ListFrame /\ UNCHANGED listVars
    \/ \E i \in TunnelIDs : RemoveRoute(i) /\ ListFrame /\ UNCHANGED listVars
    \/ \E h \in Hostnames : GetTunnelByHost(h) /\ ListFrame /\ UNCHANGED listVars
    \/ ListRoutes /\ ListFrame
    \/ \E r \in ListedRoutes :
          CallerPut(r.hostname, Target(r.id, r.ip, r.port)) /\ ListFrame
    \/ \E h \in Hostnames : CallerDelete(h) /\ ListFrame

SpecList == InitList /\ [][NextList]_vars

(***************************************************************************)
(* Claims about the Router (SpecRouter)                                    *)
(***************************************************************************)
\* What a caller sees of a map through the lookups: the keys bound and the
\* target of each.
SameBindings(m1, m2) ==
    /\ DOMAIN m1 = DOMAIN m2
    /\ \A k \in DOMAIN m1 : m1[k] = m2[k]

\* C1: an AddRoute call that returns an error leaves the hostname mapping and
\* the port mapping as they were before the call; a call rejected for a port
\* collision leaves its hostname unbound.
C1_FailedAddRouteChangesNothing ==
    [][(call'.op = "AddRoute" /\ call'.err # NoErr)
          => /\ SameBindings(hostMap, hostMap')
             /\ SameBindings(portMap, portMap')]_vars

\* C2: AddRoute returns an error exactly when the hostname is bound or the
\* port is positive and bound, and a binding, once made, stays the same through
\* every call but a RemoveRoute of its target's identifier.
C2_AddRouteErrorAndNoOverwrite ==
    [][/\ call'.op = "AddRoute"
          => (call'.err # NoErr
                <=> \/ call'.hostname \in DOMAIN hostMap
                    \/ (call'.port > 0 /\ call'.port \in DOMAIN portMap))
       /\ \A h \in DOMAIN hostMap :
             \/ call'.op = "RemoveRoute" /\ call'.id = hostMap[h].ID
             \/ h \in DOMAIN hostMap' /\ hostMap'[h] = hostMap[h]
       /\ \A q \in DOMAIN portMap :
             \/ call'.op = "RemoveRoute" /\ call'.id = portMap[q].ID
             \/ q \in DOMAIN portMap' /\ portMap'[q] = portMap[q]]_vars

\* C2's case: an AddRoute for a hostname bound to another tunnel was refused
\* and the hostname still resolves to the other tunnel's target.
C2_Witness ==
    /\ call.op = "AddRoute"
    /\ call.err = "hostname already in use"
    /\ call.hostname \in DOMAIN hostMap
    /\ hostMap[call.hostname].ID # call.id

\* C9: after RemoveRoute(id), the lookup of every hostname and of every port
\* that was bound to a target with identifier id finds nothing.
C9_RemovedKeysAreNotFound ==
    [][call'.op = "RemoveRoute"
          => /\ \A h \in DOMAIN hostMap :
                   hostMap[h].ID = call'.id => ~Lookup(hostMap', h).found
             /\ \A q \in DOMAIN portMap :
                   portMap[q].ID = call'.id => ~Lookup(portMap', q).found]_vars

\* C9's case: RemoveRoute removed a hostname whose target has a positive port
\* that was not bound to the identifier (the state a refused AddRoute leaves),
\* and the hostname is not found.
C9_Witness ==
    /\ call.op = "RemoveRoute"
    /\ \E h \in DOMAIN call.hosts :
          /\ call.hosts[h].Port > 0
          /\ call.hosts[h].Port \notin call.ports
          /\ ~Lookup(hostMap, h).found

\* C16: after an AddRoute(id, hostname, ip, port) that returns no error, the
\* lookup of hostname returns the target (id, ip, port); when port > 0 the
\* lookup of port returns a target with identifier id; when port <= 0 the port
\* mapping is left as it was, and such a call fails only if its hostname is
\* bound, however many routes without a port are installed.
C16_AddedRouteIsLookedUp ==
    [][call'.op = "AddRoute"
          => /\ call'.err = NoErr
                   => /\ Lookup(hostMap', call'.hostname).found
                      /\ Lookup(hostMap', call'.hostname).target
                            = Target(call'.id, call'.ip, call'.port)
                      /\ call'.port > 0
                            => /\ Lookup(portMap', call'.port).found
                               /\ Lookup(portMap', call'.port).target.ID = call'.id
                      /\ call'.port <= 0 => SameBindings(portMap, portMap')
             /\ (call'.port <= 0 /\ call'.hostname \notin DOMAIN hostMap)
                   => call'.err = NoErr]_vars

\* C16's case: a second route without a port (port 0) was installed beside a
\* first one (port -1), both resolve by hostname, and the port mapping is empty.
C16_Witness ==
    /\ call.op = "AddRoute" /\ call.err = NoErr /\ call.port = 0
    /\ Lookup(hostMap, call.hostname).target = Target(call.id, call.ip, 0)
    /\ \E h \in DOMAIN hostMap : h # call.hostname /\ hostMap[h].Port = -1
    /\ portMap = EmptyMap

\* C18: the map ListRoutes returns equals the hostname mapping at the time of
\* the call; AddRoute and RemoveRoute calls made afterwards leave the entries
\* of the returned map as they were (only the caller's own writes and deletes
\* change them); and the caller's writes and deletes on the returned map leave
\* the Router's mappings, and so the result of every lookup, as they were.
C18_ListRoutesReturnsSnapshot ==
    /\ [](listRef # "nil" => SameBindings(CallerMap, listed))
    /\ [][/\ call'.op = "ListRoutes"
             => /\ SameBindings(listed', hostMap)
                /\ SameBindings(hostMap', hostMap)
          /\ call'.op \in {"CallerPut", "CallerDelete"}
             => /\ SameBindings(hostMap', hostMap)
                /\ SameBindings(portMap', portMap)
                /\ \A h \in Hostnames : Lookup(hostMap', h) = Lookup(hostMap, h)]_vars

\* C18's case: after ListRoutes returned a map with an entry, the caller
\* deleted that entry from it and wrote another hostname into it, and a
\* RemoveRoute and an AddRoute changed the Router's mapping: the Router still
\* resolves by its own mapping, which now differs from the caller's map on
\* both hostnames.
C18_Witness ==
    /\ listRef # "nil"
    /\ call.op = "AddRoute" /\ call.err = NoErr
    /\ \E h1, h2 \in Hostnames :
          /\ h1 # h2
          /\ h1 \in DOMAIN listed /\ h1 \notin DOMAIN hostMap
          /\ h2 \notin DOMAIN listed /\ h2 \in DOMAIN hostMap

\* C22: in every Router state, for each hostname entry whose target has a
\* positive port, the port mapping has an entry for that port whose target
\* carries the same tunnel identifier.
C22_HostRouteHasItsPortRoute ==
    \A h \in DOMAIN hostMap :
        hostMap[h].Port > 0
            => /\ hostMap[h].Port \in DOMAIN portMap
               /\ portMap[hostMap[h].Port].ID = hostMap[h].ID

\* C23 as claimed: in every Router state each tunnel identifier is carried by
\* the target of at most one hostname entry and of at most one port entry.
C23_IdOnAtMostOneHostAndPort ==
    \A id \in TunnelIDs :
        /\ Cardinality({h \in DOMAIN hostMap : hostMap[h].ID = id}) <= 1
        /\ Cardinality({q \in DOMAIN portMap : portMap[q].ID = id}) <= 1

\* C23 as the code has it: the Target an AddRoute call creates is bound under
\* at most one hostname key, the call's hostname, and at most one port key,
\* the call's port when it is positive; the call changes no entry that was
\* there, and a port key always holds a target with that port.  (An
\* identifier may be carried by several such targets.)
C23_TargetUnderOneHostAndOnePort ==
    /\ \A q \in DOMAIN portMap : portMap[q].Port = q
    /\ [][call'.op = "AddRoute"
            => LET t == Target(call'.id, call'.ip, call'.port)
               IN /\ DOMAIN hostMap' \ DOMAIN hostMap \subseteq {call'.hostname}
                  /\ DOMAIN portMap' \ DOMAIN portMap
                        \subseteq {q \in {call'.port} : q > 0}
                  /\ \A h \in DOMAIN hostMap' \ DOMAIN hostMap : hostMap'[h] = t
                  /\ \A q \in DOMAIN portMap' \ DOMAIN portMap : portMap'[q] = t
                  /\ \A h \in DOMAIN hostMap : h \in DOMAIN hostMap' /\ hostMap'[h] = hostMap[h]
                  /\ \A q \in DOMAIN portMap : q \in DOMAIN portMap' /\ portMap'[q] = portMap[q]]_vars

\* C23's case: a second AddRoute with an identifier the table already
\* carries succeeded, and the identifier is now on two hostname entries and
\* two port entries.
C23_Witness ==
    /\ call.op = "AddRoute" /\ call.err = NoErr
    /\ Cardinality({h \in DOMAIN hostMap : hostMap[h].ID = call.id}) = 2
    /\ Cardinality({q \in DOMAIN portMap : portMap[q].ID = call.id}) = 2

\* C25: RemoveRoute(id) removes exactly the hostname and port entries whose
\* target carries id; every entry of another identifier stays as it was, and
\* when no entry carries id both mappings are as before.
C25_RemoveRouteRemovesOnlyItsEntries ==
    [][call'.op = "RemoveRoute"
          => /\ DOMAIN hostMap' = {h \in DOMAIN hostMap : hostMap[h].ID # call'.id}
             /\ DOMAIN portMap' = {q \in DOMAIN portMap : portMap[q].ID # call'.id}
             /\ \A h \in DOMAIN hostMap' : hostMap'[h] = hostMap[h]
             /\ \A q \in DOMAIN portMap' : portMap'[q] = portMap[q]
             /\ (/\ \A h \in DOMAIN hostMap : hostMap[h].ID # call'.id
                 /\ \A q \in DOMAIN portMap : portMap[q].ID # call'.id)
                   => /\ SameBindings(hostMap, hostMap')
                      /\ SameBindings(portMap, portMap')]_vars

\* C25's cases: RemoveRoute removed the entries of its identifier and left a
\* hostname entry and a port entry of the other identifier in place.
C25_Witness ==
    /\ call.op = "RemoveRoute"
    /\ DOMAIN call.hosts # {} /\ call.ports # {}
    /\ \E h \in DOMAIN hostMap : hostMap[h].ID # call.id
    /\ \E q \in DOMAIN portMap : portMap[q].ID # call.id

\* RemoveRoute with an identifier no entry carries, on a table that has
\* entries: nothing was removed.
C25_WitnessNoMatch ==
    /\ call.op = "RemoveRoute"
    /\ DOMAIN call.hosts = {} /\ call.ports = {}
    /\ hostMap # EmptyMap /\ portMap # EmptyMap

(***************************************************************************)
(* Claims about the Manager (Spec)                                         *)
(***************************************************************************)
\* The number of live tunnels.
LiveCount(tuns) == Cardinality(DOMAIN tuns)

\* C4, as claimed: the number of live tunnels is at most the configured
\* maximum in every state, and a CreateTunnel call made while the number equals
\* the maximum fails with the capacity error and leaves the registry unchanged.
C4_CountNeverExceedsMaximum ==
    /\ [](LiveCount(tunnels) <= maxTunnels)
    /\ [][(call'.op = "CreateTunnel" /\ LiveCount(tunnels) = maxTunnels)
             => (call'.err = ErrCapacity /\ tunnels' = tunnels)]_vars

\* C4, amended: with a maximum of 0 or more the number of live tunnels is at
\* most the maximum in every state; with a negative maximum the registry stays
\* empty; and a CreateTunnel call made while the number is at or above the
\* maximum fails with the capacity error and leaves the registry unchanged.
C4_CountBoundedUnlessNegativeMaximum ==
    /\ [](IF maxTunnels >= 0 THEN LiveCount(tunnels) <= maxTunnels
          ELSE LiveCount(tunnels) = 0)
    /\ [][(call'.op = "CreateTunnel" /\ LiveCount(tunnels) >= maxTunnels)
             => (call'.err = ErrCapacity /\ tunnels' = tunnels)]_vars

\* C4's case: a CreateTunnel call on a registry holding its maximum (at least
\* one tunnel) was refused with the capacity error.
C4_Witness ==
    /\ call.op = "CreateTunnel"
    /\ call.err = ErrCapacity
    /\ maxTunnels > 0
    /\ LiveCount(tunnels) = maxTunnels

\* C5, as claimed: CreateTunnel with the identifier of a live tunnel fails with
\* the identifier-conflict error, whatever the tunnel count, and leaves every
\* field of the existing record unchanged.
C5_DuplicateIdAlwaysConflict ==
    [][(call'.op = "CreateTunnel" /\ call'.id \in DOMAIN tunnels)
          => /\ call'.err = ErrExists
             /\ call'.id \in DOMAIN tunnels'
             /\ tunnels'[call'.id] = tunnels[call'.id]]_vars

\* C5, amended: CreateTunnel with the identifier of a live tunnel fails, with
\* the identifier-conflict error when the registry is below its maximum and
\* with the capacity error when it has reached it, and leaves every field of
\* the existing record unchanged.
C5_DuplicateIdFailsRecordUnchanged ==
    [][(call'.op = "CreateTunnel" /\ call'.id \in DOMAIN tunnels)
          => /\ call'.err = IF LiveCount(tunnels) >= maxTunnels
                            THEN ErrCapacity ELSE ErrExists
             /\ call'.id \in DOMAIN tunnels'
             /\ tunnels'[call'.id] = tunnels[call'.id]]_vars

\* C5's case: a CreateTunnel with a live identifier and another hostname was
\* refused with the identifier-conflict error and the record kept its hostname.
C5_Witness ==
    /\ call.op = "CreateTunnel"
    /\ call.err = ErrExists
    /\ call.id \in DOMAIN tunnels
    /\ tunnels[call.id].Hostname # call.hostname

\* C8: when CreateTunnel is called with a peer public key and SetupPeer fails,
\* CreateTunnel returns an error, the registry holds no record for the
\* identifier and the live tunnels are those from before the call.
C8_AllocatorFailureAbortsCreate ==
    [][(/\ call'.op = "CreateTunnel"
        /\ call'.key # ""
        /\ call'.peerErr \notin {NoErr, "not called"})
          => /\ call'.err # NoErr
             /\ call'.id \notin DOMAIN tunnels'
             /\ tunnels' = tunnels]_vars

\* C8's case: the peer registration failed; the call returned an error and
\* the identifier is not in the registry.
C8_Witness ==
    /\ call.op = "CreateTunnel"
    /\ call.key # ""
    /\ call.peerErr = "failed to add WireGuard peer"
    /\ call.err # NoErr
    /\ call.id \notin DOMAIN tunnels

\* C10: RemoveTunnel(id) returns an error exactly when id is not live, and then
\* changes nothing; when id is live it returns no error and removes the record,
\* and only that record, whether the peer release succeeds, fails or is not
\* needed.
C10_RemoveTunnelErrorIffAbsent ==
    [][call'.op = "RemoveTunnel"
          => /\ call'.err # NoErr <=> call'.id \notin DOMAIN tunnels
             /\ call'.id \notin DOMAIN tunnels => tunnels' = tunnels
             /\ call'.id \in DOMAIN tunnels
                   => /\ DOMAIN tunnels' = DOMAIN tunnels \ {call'.id}
                      /\ \A i \in DOMAIN tunnels' : tunnels'[i] = tunnels[i]]_vars

\* C10's case: the peer release failed, the call returned no error and the
\* record is gone.
C10_Witness ==
    /\ call.op = "RemoveTunnel"
    /\ call.peer = "release failed"
    /\ call.err = NoErr
    /\ call.id \notin DOMAIN tunnels

\* C11: capacity counts live tunnels only. A CreateTunnel call with an
\* identifier that is not live and no peer public key succeeds exactly when the
\* number of live tunnels is below the maximum, and then the identifier is
\* live; and after a RemoveTunnel that succeeds on a registry holding its
\* maximum, such a call with any identifier that is not live succeeds.
C11_CapacityCountsLiveTunnels ==
    [][/\ (call'.op = "CreateTunnel" /\ call'.id \notin DOMAIN tunnels /\ call'.key = "")
          => /\ call'.err = NoErr <=> LiveCount(tunnels) < maxTunnels
             /\ call'.err = NoErr <=> call'.id \in DOMAIN tunnels'
       /\ (/\ call'.op = "RemoveTunnel" /\ call'.err = NoErr
           /\ LiveCount(tunnels) = maxTunnels)
          => \A id \in TunnelIDs \ DOMAIN tunnels' :
                CreateTunnelErr(tunnels', maxTunnels, nextIP', peers', id, "", EnvOk) = NoErr]_vars

\* C11's case, with a maximum of 1: a tunnel with a peer key was created (the
\* interface holds its peer and one address is allocated), which filled the
\* registry; it was removed; and the CreateTunnel call with no peer key that
\* followed succeeded, so the one live record is the new one, without a peer
\* configuration.
C11_Witness ==
    /\ call.op = "CreateTunnel"
    /\ call.key = ""
    /\ call.err = NoErr
    /\ maxTunnels = 1
    /\ LiveCount(tunnels) = 1
    /\ tunnels[call.id].WireGuardConfig = NilConfig
    /\ peers # EmptyMap
    /\ nextIP = IncIP(FirstIP)

\* C17: UpdateLastActive(id) on an identifier that is not live leaves the
\* registry as it was; on a live one it sets that record's last-active to the
\* clock's reading and changes nothing else; and through every step, a record
\* that stays in the registry never has its last-active value decreased.
C17_LastActiveSetAndMonotonic ==
    [][/\ call'.op = "UpdateLastActive"
          => /\ call'.id \notin DOMAIN tunnels => tunnels' = tunnels
             /\ call'.id \in DOMAIN tunnels
                   => /\ DOMAIN tunnels' = DOMAIN tunnels
                      /\ tunnels'[call'.id] = [tunnels[call'.id] EXCEPT !.LastActive = now']
                      /\ \A i \in DOMAIN tunnels \ {call'.id} : tunnels'[i] = tunnels[i]
       /\ now' >= now
       /\ \A i \in DOMAIN tunnels \cap DOMAIN tunnels' :
             tunnels'[i].LastActive >= tunnels[i].LastActive]_vars

\* C17's case: UpdateLastActive on a live record moved its last-active past
\* its creation time, to the clock's reading.
C17_Witness ==
    /\ call.op = "UpdateLastActive"
    /\ call.id \in DOMAIN tunnels
    /\ tunnels[call.id].LastActive = now
    /\ tunnels[call.id].LastActive > tunnels[call.id].Created

\* C26: a CreateTunnel call with a peer public key that fails with the
\* capacity error or the identifier-conflict error has not called SetupPeer,
\* and the allocator's cursor and the peers on the interface are as before.
C26_RefusedCreateLeavesAllocator ==
    [][(/\ call'.op = "CreateTunnel"
        /\ call'.key # ""
        /\ call'.err \in {ErrCapacity, ErrExists})
          => /\ call'.peerErr = "not called"
             /\ nextIP' = nextIP
             /\ peers' = peers]_vars

\* C26's case: a CreateTunnel with a peer key and the identifier of a live
\* tunnel, on a registry below its maximum, was refused for the identifier.
C26_Witness ==
    /\ call.op = "CreateTunnel"
    /\ call.key # ""
    /\ call.err = ErrExists
    /\ call.peerErr = "not called"
    /\ call.id \in DOMAIN tunnels

\* The other case: refused for capacity.
C26_WitnessCapacity ==
    /\ call.op = "CreateTunnel"
    /\ call.key # ""
    /\ call.err = ErrCapacity
    /\ call.id \notin DOMAIN tunnels
    /\ maxTunnels > 0

\* C29: through every step, a record that stays in the registry keeps its
\* identifier, hostname, target port, creation time, peer configuration (and
\* metadata); a live record changes only in a step of UpdateLastActive on its
\* own identifier.
C29_LiveRecordChangesOnlyLastActive ==
    [][\A i \in DOMAIN tunnels \cap DOMAIN tunnels' :
          /\ tunnels'[i] = [tunnels[i] EXCEPT !.LastActive = tunnels'[i].LastActive]
          /\ tunnels'[i].ID = i
          /\ tunnels'[i] # tunnels[i]
                => call'.op = "UpdateLastActive" /\ call'.id = i]_vars

\* C29's case: of two live records, one with a peer configuration,
\* UpdateLastActive moved the last-active of the one it names and the other
\* still has the last-active it was created with.
C29_Witness ==
    /\ call.op = "UpdateLastActive"
    /\ call.id \in DOMAIN tunnels
    /\ tunnels[call.id].LastActive > tunnels[call.id].Created
    /\ \E j \in DOMAIN tunnels \ {call.id} :
          /\ tunnels[j].LastActive < now
          /\ tunnels[j].WireGuardConfig # NilConfig

\* C31: when RemoveTunnel has removed a tunnel that had a peer configuration
\* and the release reported success, the peer registered for it is gone from
\* the interface: if no tunnel with a peer configuration is left, no peer is
\* registered.
C31_ReleasedPeerIsDeregistered ==
    [][(/\ call'.op = "RemoveTunnel"
        /\ call'.peer = "released"
        /\ \A i \in DOMAIN tunnels' : tunnels'[i].WireGuardConfig = NilConfig)
          => peers' = EmptyMap]_vars

(***************************************************************************)
(* Claims about the agent (SpecAgent)                                      *)
(***************************************************************************)
\* C3: once a create-tunnel request for (id, hostname) has been answered 201,
\* the Router the dispatcher reads resolves the hostname to a target with that
\* identifier.
C3_CreatedTunnelHasRoute ==
    (call.op = "handleCreateTunnel" /\ call.code = StatusCreated)
        => /\ Lookup(hostMap, call.hostname).found
           /\ Lookup(hostMap, call.hostname).target.ID = call.id

\* C19: the slice a status request gets from GetAllTunnels holds the record of
\* every live tunnel, each once, and nothing else, so the count the status
\* endpoint reports is the number of live tunnels.
C19_StatusCountsLiveTunnels ==
    (call.op = "handleStatus" /\ call.code = StatusOK)
        => /\ \A id \in DOMAIN tunnels :
                 Cardinality({i \in DOMAIN call.list : call.list[i].ID = id}) = 1
           /\ \A i \in DOMAIN call.list :
                 /\ call.list[i].ID \in DOMAIN tunnels
                 /\ call.list[i] = tunnels[call.list[i].ID]
           /\ call.NumTunnels = LiveCount(tunnels)

\* C19's case, with a maximum of 1: a tunnel with a peer key was created and
\* removed (the interface holds its peer), another without one was created
\* later; the status request got one record, the live one, and reports 1.
C19_Witness ==
    /\ call.op = "handleStatus" /\ call.code = StatusOK
    /\ call.NumTunnels = 1
    /\ call.list[1].Created > 0
    /\ peers # EmptyMap
    /\ call.list[1].WireGuardConfig = NilConfig
    /\ maxTunnels = 1

\* C20: a create-tunnel request by a method other than POST is answered 405,
\* and a POST whose body does not decode, or has an empty tunnel_id, an empty
\* hostname or a target_port of 0 or less, is answered 400; in each of these
\* cases CreateTunnel is not invoked and the registry, the allocator and the
\* clock are as before.
C20_InvalidCreateRequestRejected ==
    [][call'.op = "handleCreateTunnel"
          => /\ call'.method # "POST"
                   => /\ call'.code = StatusMethodNotAllowed
                      /\ ~call'.invoked
             /\ (/\ call'.method = "POST"
                 /\ \/ ~call'.decodes
                    \/ call'.id = "" \/ call'.hostname = "" \/ call'.port <= 0)
                   => /\ call'.code = StatusBadRequest
                      /\ ~call'.invoked
             /\ ~call'.invoked => UNCHANGED <<managerVars, wgVars>>]_vars

\* C20's case: on a registry with a tunnel and room for more, a POST with a
\* fresh tunnel_id, a hostname and target_port -1 was answered 400, and the
\* identifier is not in the registry.
C20_Witness ==
    /\ call.op = "handleCreateTunnel"
    /\ call.method = "POST" /\ call.decodes
    /\ call.id \in TunnelIDs /\ call.hostname \in Hostnames /\ call.port = -1
    /\ call.code = StatusBadRequest
    /\ ~call.invoked
    /\ LiveCount(tunnels) = 1 /\ maxTunnels = 2
    /\ call.id \notin DOMAIN tunnels

(***************************************************************************)
(* Claims about the WireGuardManager (SpecWG)                              *)
(***************************************************************************)
\* 10.10.0.0/16
InBlock(ip4) == Len(ip4) = 4 /\ ip4[1] = 10 /\ ip4[2] = 10

\* C6: no two successful SetupPeer calls return the same peer address, and
\* every returned peer address lies in 10.10.0.0/16.
C6_ReturnedAddressesDistinctInBlock ==
    /\ \A i \in 1..Len(returned) : InBlock(returned[i])
    /\ \A i, j \in 1..Len(returned) : i < j => returned[i] # returned[j]

\* C6's case: an address has been returned by an earlier call, and two
\* callers are inside SetupPeer at once, one about to return a further address
\* under the mutex and one waiting for the mutex.
C6_Witness ==
    /\ Len(returned) >= 1
    /\ \E p, q \in Procs :
          /\ pc[p] = "return" /\ wloc[p].err = NoErr
          /\ wloc[p].config.ClientIP \notin {returned[i] : i \in 1..Len(returned)}
          /\ pc[q] = "Lock"

\* C7: a SetupPeer call that fails in key generation or in addPeer returns
\* with the cursor where the call found it.
C7_FailedSetupPeerKeepsCursor ==
    \A p \in Procs :
        (/\ pc[p] = "return"
         /\ wloc[p].err \in {"failed to generate private key",
                             "failed to generate public key",
                             "failed to add WireGuard peer"})
            => nextIP = wloc[p].entry

\* C30: in the configuration a successful SetupPeer returns, the server
\* address and the client address differ, and the server address is not one
\* returned to a peer as its client address.
C30_ServerAddressIsNotAPeerAddress ==
    \A p \in Procs :
        (pc[p] = "return" /\ wloc[p].err = NoErr)
            => /\ wloc[p].config.ServerIP # wloc[p].config.ClientIP
               /\ \A i \in 1..Len(returned) :
                     returned[i] # wloc[p].config.ServerIP

(***************************************************************************)
(* Claims about concurrent CreateTunnel calls (SpecCreate)                 *)
(***************************************************************************)
\* C12: under every interleaving of concurrent CreateTunnel calls, no
\* identifier is returned as created by two calls, the identifiers returned as
\* created are exactly the live ones, and no step raises the number of live
\* tunnels above the maximum.
C12_ConcurrentCreatesAreAtomic ==
    /\ [](/\ \A i, j \in 1..Len(createdIDs) : i # j => createdIDs[i] # createdIDs[j]
          /\ \A i \in 1..Len(createdIDs) : createdIDs[i] \in DOMAIN tunnels
          /\ LiveCount(tunnels) <= IF maxTunnels > 0 THEN maxTunnels ELSE 0)
    /\ [][LiveCount(tunnels') > LiveCount(tunnels)
             => LiveCount(tunnels') <= maxTunnels]_vars

\* C12's case: two calls with the same identifier are in progress on a
\* registry with one slot left; one has passed both checks, stored its record
\* and reached its return under the mutex, the other waits for the mutex.
C12_Witness ==
    \E p, q \in Procs :
        /\ p # q
        /\ mpc[p] = "return" /\ mloc[p].err = NoErr
        /\ mpc[q] = "Lock"
        /\ mloc[q].id = mloc[p].id
        /\ mmu = p
        /\ LiveCount(tunnels) = maxTunnels

\* C21: the registry's write lock is not held while a CreateTunnel call with
\* a peer key waits on the allocator's external commands: whenever a caller
\* is at its m.wg.SetupPeer call, a concurrent GetTunnel can take the read
\* lock and complete.
C21_ReadersPassDuringProvisioning ==
    \A p \in Procs :
        mpc[p] = "setupPeer" => ENABLED (\E id \in TunnelIDs : CT_GetTunnel(id))

(***************************************************************************)
(* Claims about concurrent AddRoute calls and lookups (SpecAdd)            *)
(***************************************************************************)
\* An AddRoute call with a positive port that nothing bars from succeeding
\* has bound its hostname and has not yet bound its port.
HalfAdded(p) ==
    /\ rpc[p] \in {"checkPort", "putPort"}
    /\ rloc[p].port > 0
    /\ rloc[p].hostname \in DOMAIN hostMap
    /\ rloc[p].port \notin DOMAIN portMap

\* C24: no GetTunnelByHost or GetTunnelByPort runs in a state where an
\* AddRoute call that succeeds has bound its hostname and not yet its port:
\* to a lookup, the call's hostname and port are both bound to its target or
\* neither is bound by it.
C24_LookupNeverSeesHalfAddedRoute ==
    [][(call' # call /\ call'.op \in {"GetTunnelByHost", "GetTunnelByPort"})
          => \A p \in Procs : ~HalfAdded(p)]_vars

\* C24's case: a lookup found the hostname of a route whose port is bound to
\* the same target, after the AddRoute that added both returned without
\* error, while another AddRoute call with a positive port is in progress.
C24_Witness ==
    /\ call.op = "GetTunnelByHost" /\ call.res.found
    /\ call.res.target.Port > 0
    /\ call.res.target.Port \in DOMAIN portMap
    /\ portMap[call.res.target.Port] = call.res.target
    /\ \E p \in Procs : rpc[p] = "Lock" /\ rloc[p].port > 0

(***************************************************************************)
(* Claims about results a caller keeps (SpecHold)                          *)
(***************************************************************************)
\* C27: the record a caller got from GetTunnel or GetAllTunnels is a
\* snapshot: whatever UpdateLastActive, CreateTunnel and RemoveTunnel calls
\* follow, every field read through the result is as it was when the call
\* returned.
C27_ResultsAreSnapshots ==
    held.id # "" => held.seen = held.got

(***************************************************************************)
(* Claims about traffic and the registry (SpecTrafficFair)                 *)
(***************************************************************************)
\* The dispatcher has resolved traffic to a route of tunnel id: the HTTP
\* request just forwarded, or the TCP connection in hand.
RoutedTo(id) ==
    \/ /\ call.op = "handleHTTPRequest"
       /\ call.forwarded
       /\ call.target.ID = id
    \/ /\ conn.found = "yes"
       /\ conn.target.ID = id

\* C28: traffic the dispatcher resolves to a route of a live tunnel at time
\* t leads to that tunnel's last-active being t or later (unless the tunnel
\* is removed first).
C28_RoutedTrafficUpdatesLastActive ==
    \A id \in TunnelIDs, t \in 0..MaxClock :
        (RoutedTo(id) /\ id \in DOMAIN tunnels /\ now = t)
            ~> (id \notin DOMAIN tunnels \/ tunnels[id].LastActive >= t)

(***************************************************************************)
(* Claims about allocateIP (SpecAlloc)                                     *)
(***************************************************************************)
\* The four bytes of a number, most significant first.
BytesOf(n) == <<n \div 16777216, (n \div 65536) % 256, (n \div 256) % 256, n % 256>>

\* The last address of the block, 10.10.255.255, as a number.
BlockLast == IPValue(<<10, 10, 255, 255>>)

\* C32: allocateIP's candidate is the cursor plus one as a big-endian number
\* (after x.y.z.255 comes x.y.(z+1).0); a candidate inside the block is both
\* returned and stored as the cursor, and the addresses two consecutive
\* successful calls return differ by one.
C32_AllocateIPAddsOneWithCarry ==
    [][call'.op = "allocateIP"
          => LET cur == IPValue(To4(nextIP))
             IN /\ cur + 1 <= BlockLast
                     => /\ To4(call'.ip) = BytesOf(cur + 1)
                        /\ nextIP' = call'.ip
                        /\ To4(nextIP)[4] = 255
                              => To4(call'.ip) = <<To4(nextIP)[1], To4(nextIP)[2],
                                                   To4(nextIP)[3] + 1, 0>>
                /\ (call.op = "allocateIP" /\ call.ip # <<>> /\ call'.ip # <<>>)
                     => IPValue(To4(call'.ip)) = IPValue(To4(call.ip)) + 1]_vars

\* C32's case: the second of two consecutive successful calls returned
\* x.y.(z+1).0 from the cursor x.y.z.255.
C32_Witness ==
    /\ call.op = "allocateIP"
    /\ call.n >= 2
    /\ To4(call.from)[4] = 255
    /\ call.ip # <<>>
    /\ To4(call.ip)[4] = 0
    /\ nextIP = call.ip

(***************************************************************************)
(* Claims about the configuration (SpecConfig)                             *)
(***************************************************************************)
\* C34: for every configuration validate accepts, the TCP listen port main
\* derives from it is a port in 1..65535.
C34_DerivedTCPPortIsValid ==
    call.op = "main" => call.TCPPort \in 1..65535

(***************************************************************************)
(* Claims about the accept loop (SpecAccept, SpecAcceptFair)               *)
(***************************************************************************)
\* C35: an accept loop ends only because Stop has closed its listener: an
\* Accept error while the listener is open leaves the loop accepting.
C35_LoopEndsOnlyWhenListenerClosed ==
    \A g \in DOMAIN loop : loop[g] = "ended" => listener[g] = "closed"

\* The accept loop of a listener that has been closed still runs.
PendingOnClosed ==
    \E g \in DOMAIN listener : listener[g] = "closed" /\ loop[g] # "ended"

\* C36: once Stop has closed a listener, the pending Accept on it returns and
\* its loop ends (again and again no accept loop is left running on a closed
\* listener), for good and without logging the error as one to retry; the
\* listener stays closed, Accept returns no connection on it, and no
\* connection is handed to a handler while no listener is open.
C36_StopEndsAcceptLoop ==
    /\ []<>(~PendingOnClosed)
    /\ [][/\ \A g \in DOMAIN listener :
                /\ loop[g] = "ended" => loop'[g] = "ended"
                /\ listener[g] = "closed"
                      => /\ listener'[g] = "closed"
                         /\ ~(loop[g] = "accepting" /\ loop'[g] = "dispatch")
                         /\ (call'.op = "Accept" /\ call'.g = g)
                               => ~call'.logged /\ loop'[g] = "ended"
          /\ PortFree => ~(tpc # "lookup" /\ tpc' = "lookup")]_vars

(***************************************************************************)
(* Claims about the traffic dispatcher (SpecLB, SpecLBFair)                *)
(***************************************************************************)
\* Both ends of the pair are closed and the handler has terminated.
PairTornDown ==
    /\ tpc = "done"
    /\ conn.client = "closed"
    /\ conn.backend = "closed"

\* C13: for a proxied pair, once either pump direction has ended, both the
\* client connection and the backend connection are eventually closed and the
\* handler terminates, whatever the peers do or do not do afterwards.
C13_PumpEndTearsDownPair ==
    \A d \in Directions : (ppc[d] = "ended") ~> PairTornDown

\* C14: an HTTP request whose Host has no entry in the hostname mapping when
\* it is looked up is answered 503 and is not forwarded to any backend.
C14_UnknownHostIs503NoForward ==
    [][(call'.op = "handleHTTPRequest" /\ call'.host \notin DOMAIN hostMap)
          => /\ call'.code = StatusServiceUnavailable
             /\ ~call'.forwarded]_vars

\* C14's case: the table holds a route, the request names another host, and it
\* was answered 503 without being forwarded.
C14_Witness ==
    /\ call.op = "handleHTTPRequest"
    /\ hostMap # EmptyMap
    /\ call.host \notin DOMAIN hostMap
    /\ call.code = StatusServiceUnavailable
    /\ ~call.forwarded

\* C15: for the accepted connection, when the lookup of its local port failed
\* no outbound connection is dialled or opened, and when the lookup succeeded
\* and the dial failed no pump runs and no bytes are pumped; in both cases the
\* handler is returning, and the inbound connection is closed once it has.
C15_NoRouteOrDialFailureClosesInbound ==
    /\ conn.found = "no"
          => /\ conn.dial = "none" /\ conn.backend = "none"
             /\ \A d \in Directions : ppc[d] = "none"
             /\ tpc \in {"closeClient", "done"}
             /\ tpc = "done" => conn.client = "closed"
    /\ conn.dial = "failed"
          => /\ conn.found = "yes" /\ conn.backend = "none"
             /\ conn.pumped = 0
             /\ \A d \in Directions : ppc[d] = "none"
             /\ tpc \in {"closeClient", "done"}
             /\ tpc = "done" => conn.client = "closed"

\* C15's case: a route was found for the local port, the dial failed, the
\* client had already sent bytes, and the handler has returned with the
\* inbound connection closed and nothing pumped.
C15_Witness ==
    /\ tpc = "done"
    /\ conn.found = "yes"
    /\ conn.dial = "failed"
    /\ inbox["client"] = "data"
    /\ conn.client = "closed"
    /\ conn.pumped = 0

\* C15's other case: no route for the local port while the table holds a
\* route with another port; the handler has returned.
C15_WitnessNoRoute ==
    /\ tpc = "done"
    /\ conn.found = "no"
    /\ portMap # EmptyMap
    /\ conn.client = "closed"

\* C37: every port entry's key is the port of its target, and so the port
\* the handler dials for a connection is the local port it arrived on.
C37_DialledPortIsLocalPort ==
    /\ \A q \in DOMAIN portMap : portMap[q].Port = q
    /\ conn.dial # "none" => DialAddress(conn.target).port = conn.port

\* C37's case: a connection arrived on the listener's port while the table
\* held a route for it, and the backend was dialled and connected.
C37_Witness ==
    /\ conn.port \in ListenPorts
    /\ conn.found = "yes"
    /\ conn.dial = "ok"
    /\ DialAddress(conn.target) = [ip |-> "10.0.0.1", port |-> conn.port]
    /\ tpc = "proxy"

(***************************************************************************)
(* Claims about lookups by hostname (SpecFind)                             *)
(***************************************************************************)
\* C38: GetTunnelByHostname fails exactly when no live tunnel has the
\* hostname, and for a given registry and hostname every call returns the
\* same record, also when several live tunnels have that hostname.
C38_LookupByHostnameIsDeterministic ==
    \A h \in Hostnames :
        \A o1, o2 \in IterationOrders(tunnels) :
            /\ ScanFrom(tunnels, h, o1, 1) = NilTunnel
                  <=> \A i \in DOMAIN tunnels : tunnels[i].Hostname # h
            /\ ScanFrom(tunnels, h, o1, 1) = ScanFrom(tunnels, h, o2, 1)

(***************************************************************************)
(* Claims about create/remove churn (SpecChurn)                            *)
(***************************************************************************)
\* C33: once the address after the cursor is outside the block, the cursor
\* stays where it is through every call, RemoveTunnel included, and every
\* CreateTunnel with a peer key fails, registering no peer and adding no
\* tunnel.
C33_ExhaustedBlockStaysExhausted ==
    [][/\ nextIP' # nextIP => Contains(IncIP(nextIP))
       /\ (/\ call'.op = "CreateTunnel"
           /\ call'.key # ""
           /\ ~Contains(IncIP(nextIP)))
             => /\ call'.err # NoErr
                /\ call'.peerErr \in {"not called", "failed to allocate IP for peer",
                                       "failed to generate private key",
                                       "failed to generate public key"}
                /\ peers' = peers
                /\ tunnels' = tunnels]_vars

\* C33's case: with the cursor on the last address of the block and every
\* tunnel removed, a CreateTunnel with a peer key reached SetupPeer and failed
\* for want of an address.
C33_Witness ==
    /\ ~Contains(IncIP(nextIP))
    /\ call.op = "CreateTunnel"
    /\ call.key # ""
    /\ call.peerErr = "failed to allocate IP for peer"
    /\ call.err = ErrSetupPeer
    /\ tunnels = EmptyMap
    /\ peers # EmptyMap
    /\ maxTunnels > 0

====
